---- MODULE Spec2Model ----
(***************************************************************************)
(* A model of commodity-registry: the record validators (models.py), the   *)
(* loader, the index builder and the lookups of CommodityRegistry          *)
(* (registry.py).                                                          *)
(*                                                                         *)
(* Strings are sequences of code points, so that upper(), isalnum(),       *)
(* ord() and the "PROVIDER:TICKER" key concatenation are computed and not  *)
(* assumed.  None is the one-element sequence << -1 >>, which is no        *)
(* string.                                                                 *)
(***************************************************************************)
EXTENDS Integers, Sequences, FiniteSets, TLC

VARIABLES
    commodities,   \* CommodityRegistry._commodities: records in load order
    load_errors,   \* CommodityRegistry._load_errors
    by_isin,       \* CommodityRegistry._by_isin: key -> list of records
    by_figi,       \* CommodityRegistry._by_figi: key -> record
    by_name,       \* CommodityRegistry._by_name: key -> record
    by_ticker,     \* CommodityRegistry._by_ticker: "PROVIDER:TICKER" -> record
    fs,            \* the file system: file path -> document
    include_bundled, \* the constructor's include_bundled
    extra_paths,   \* the constructor's extra_paths
    pc,            \* where the program is
    call,          \* the last lookup called, with its arguments
    matches,       \* the list returned by the last find_candidates
    found,         \* the record (or NoCommodity) returned by the last find_by_*
    value,         \* the value handed to a field validator
    outcome,       \* what the field validator returned or raised
    proc,          \* the command or library call in progress: its arguments,
                   \* locals, output and exit code
    world          \* the market-data providers: which are installed, and the
                   \* on-disk memoization cache of finder.py

vars == <<commodities, load_errors, by_isin, by_figi, by_name, by_ticker,
          fs, include_bundled, extra_paths, pc, call, matches, found,
          value, outcome, proc, world>>

(***************************************************************************)
(* Strings                                                                 *)
(***************************************************************************)
None == << -1 >>

\* Python truthiness of an optional string: neither None nor "".
Truthy(s) == s # None /\ s # <<>>

\* A character is its code point.  The str predicates are Python's, given here
\* on ASCII and on four code points beyond it: 178 (superscript two), 201 and
\* 233 (E acute, capital and small) and 1637 (Arabic-Indic digit five).
\* str.isdecimal(): the characters int() accepts
IsDecimalChar(c) == c \in 48..57 \/ c = 1637
\* str.isdigit(): the decimal characters and the digit-like ones such as 178
IsDigitChar(c) == IsDecimalChar(c) \/ c = 178
IsUpperChar(c) == c \in 65..90 \/ c = 201
IsLowerChar(c) == c \in 97..122 \/ c = 233
IsAlphaChar(c) == IsUpperChar(c) \/ IsLowerChar(c)

\* str.upper(), one character
UpperChar(c) == IF IsLowerChar(c) THEN c - 32 ELSE c

\* str.upper()
upper(s) == [i \in DOMAIN s |-> UpperChar(s[i])]

\* str.isalnum(): false for the empty string
isalnum(s) == Len(s) > 0 /\ \A i \in DOMAIN s : IsDigitChar(s[i]) \/ IsAlphaChar(s[i])

\* str.isalpha(): false for the empty string
isalpha(s) == Len(s) > 0 /\ \A i \in DOMAIN s : IsAlphaChar(s[i])

\* str.isupper(): at least one cased character and no lowercase one
isupper(s) == (\E i \in DOMAIN s : IsUpperChar(s[i])) /\ (\A i \in DOMAIN s : ~IsLowerChar(s[i]))

reversed(s) == [i \in 1..Len(s) |-> s[Len(s) + 1 - i]]

(***************************************************************************)
(* models.py: the validators of Commodity                                  *)
(***************************************************************************)
\* The outcomes of a field validator: the value it returns, or the error it raises.
Ok(v)  == [kind |-> "ok", value |-> v]
Err(k) == [kind |-> k, value |-> None]

\* int(char) of a decimal character: its digit value.
int(char) == IF char \in 48..57 THEN char - 48 ELSE char - 1632

\* int(char) raises ValueError (invalid literal) for a character that
\* str.isdigit() accepts and that is not decimal.
IntRaises(char) == IsDigitChar(char) /\ ~IsDecimalChar(char)

\* No validator has run.
NoOutcome == [kind |-> "none", value |-> None]

\* No command is running; no provider is consulted.
NoProc == [cmd |-> "none"]
NoWorld == [installed |-> {}, cache |-> <<>>, dirs |-> {}]

\* validate_isin, the first loop: a digit passes through, any other character
\* becomes ord(char) - 55 split by // 10 and % 10.
CharDigits(char) ==
    IF IsDigitChar(char) THEN << int(char) >>
    ELSE LET val == char - 55 IN << val \div 10, val % 10 >>

RECURSIVE IsinDigits(_, _)
IsinDigits(v, i) ==
    IF i > Len(v) THEN <<>> ELSE CharDigits(v[i]) \o IsinDigits(v, i + 1)

\* validate_isin, the second loop, one step: i is the 0-based index in
\* reversed(digits).
LuhnTerm(i, digit) ==
    IF i % 2 = 1
    THEN (IF digit * 2 > 9 THEN digit * 2 - 9 ELSE digit * 2)
    ELSE digit

\* A variant that leaves the check digit out of the sum.
RECURSIVE LuhnChecksum_SkipCheckDigit(_, _)
LuhnChecksum_SkipCheckDigit(rev, i) ==
    IF i >= Len(rev) THEN 0
    ELSE (IF i = 0 THEN 0 ELSE LuhnTerm(i, rev[i + 1]))
         + LuhnChecksum_SkipCheckDigit(rev, i + 1)

RECURSIVE LuhnChecksum(_, _)
LuhnChecksum(rev, i) ==
    IF i >= Len(rev) THEN 0 ELSE LuhnTerm(i, rev[i + 1]) + LuhnChecksum(rev, i + 1)

validate_isin(v0) ==
    IF v0 = None THEN Ok(None)
    ELSE LET v == upper(v0) IN
         IF ~isalnum(v) \/ Len(v) # 12 THEN Err("FormatError")
         ELSE IF ~isalpha(SubSeq(v, 1, 2)) THEN Err("CountryCodeError")
         ELSE IF \E i \in DOMAIN v : IntRaises(v[i]) THEN Err("InvalidLiteral")
         ELSE IF LuhnChecksum(reversed(IsinDigits(v, 1)), 0) % 10 # 0
              THEN Err("ChecksumError")
         ELSE Ok(v)

validate_currency(v) ==
    IF ~isupper(v) \/ Len(v) # 3 THEN Err("CurrencyFormatError") ELSE Ok(v)

\* Commodity.name: pattern ^[A-Z][A-Z0-9\._-]*$
NameChar(c) == c \in 65..90 \/ c \in 48..57 \/ c \in {46, 95, 45}
validate_name(v) ==
    IF Len(v) >= 1 /\ v[1] \in 65..90 /\ \A i \in DOMAIN v : NameChar(v[i])
    THEN Ok(v) ELSE Err("NameFormatError")

(***************************************************************************)
(* models.py: Commodity and Tickers.  id is the object's identity: its     *)
(* 1-based position in load order (two records equal in every field are    *)
(* still two objects).  tickers.present is FALSE for tickers = None.       *)
(***************************************************************************)
Providers == <<"yahoo", "ft", "google">>

\* The provider ids as strings of code points.
ProviderStr(p) ==
    CASE p = "yahoo"  -> <<121, 97, 104, 111, 111>>
      [] p = "ft"     -> <<102, 116>>
      [] p = "google" -> <<103, 111, 111, 103, 108, 101>>

NoTickers == [present |-> FALSE, yahoo |-> None, ft |-> None, google |-> None]

\* A record is schema-valid when every field validator accepts it.
SchemaValid(c) ==
    /\ validate_name(c.name).kind = "ok"
    /\ validate_isin(c.isin) = Ok(c.isin)
    /\ validate_currency(c.currency).kind = "ok"

\* "No record": what find_by_isin and find_by_ticker return for None.
NoCommodity ==
    [id |-> 0, name |-> None, isin |-> None, figi |-> None, currency |-> None,
     issuer |-> None, tickers |-> NoTickers]

(***************************************************************************)
(* registry.py: _rebuild_indices                                           *)
(***************************************************************************)
\* dict[k] = v
DictSet(d, k, v) == [x \in (DOMAIN d) \cup {k} |-> IF x = k THEN v ELSE d[x]]

\* dict.get(k, default)
DictGet(d, k, default) == IF k \in DOMAIN d THEN d[k] ELSE default

\* A build that appends to the ISIN list instead of inserting at its front.
IsinInsert_Append(lst, c) == Append(lst, c)

\* list.insert(0, c)
IsinInsert(lst, c) == <<c>> \o lst

\* One pass of the first loop: the record's ISIN key gets the record at the
\* front of its list.
IsinStep(d, c) ==
    IF Truthy(c.isin)
    THEN LET isin_key == upper(c.isin)
             d1 == IF isin_key \notin DOMAIN d THEN DictSet(d, isin_key, <<>>) ELSE d
         IN DictSet(d1, isin_key, IsinInsert(d1[isin_key], c))
    ELSE d

RECURSIVE BuildByIsin(_, _, _)
BuildByIsin(cs, i, d) ==
    IF i > Len(cs) THEN d ELSE BuildByIsin(cs, i + 1, IsinStep(d, cs[i]))

\* A by-name index in which the first record of a name stays.
NameStep_KeepFirst(d, c) == IF upper(c.name) \in DOMAIN d THEN d ELSE DictSet(d, upper(c.name), c)

\* {c.name.upper(): c for c in self._commodities}: a later record overwrites.
NameStep(d, c) == DictSet(d, upper(c.name), c)

RECURSIVE BuildByName(_, _, _)
BuildByName(cs, i, d) ==
    IF i > Len(cs) THEN d ELSE BuildByName(cs, i + 1, NameStep(d, cs[i]))

\* A by-FIGI index in which the first record of a FIGI stays.
FigiStep_KeepFirst(d, c) ==
    IF Truthy(c.figi) /\ upper(c.figi) \notin DOMAIN d THEN DictSet(d, upper(c.figi), c) ELSE d

FigiStep(d, c) == IF Truthy(c.figi) THEN DictSet(d, upper(c.figi), c) ELSE d

RECURSIVE BuildByFigi(_, _, _)
BuildByFigi(cs, i, d) ==
    IF i > Len(cs) THEN d ELSE BuildByFigi(cs, i + 1, FigiStep(d, cs[i]))

\* A key that keeps the ticker's letter case.
TickerKey_TickerAsGiven(provider, ticker) == upper(provider) \o <<58>> \o ticker

\* f"{provider.upper()}:{ticker.upper()}"
TickerKey(provider, ticker) == upper(provider) \o <<58>> \o upper(ticker)

\* The inner loop over c.tickers.model_dump().items(), from the j-th provider on.
RECURSIVE TickerItems(_, _, _)
TickerItems(d, c, j) ==
    IF j > Len(Providers) THEN d
    ELSE LET provider == Providers[j]
             ticker == c.tickers[provider]
         IN TickerItems(IF Truthy(ticker)
                        THEN DictSet(d, TickerKey(ProviderStr(provider), ticker), c)
                        ELSE d, c, j + 1)

TickerStep(d, c) == IF c.tickers.present THEN TickerItems(d, c, 1) ELSE d

RECURSIVE BuildByTicker(_, _, _)
BuildByTicker(cs, i, d) ==
    IF i > Len(cs) THEN d ELSE BuildByTicker(cs, i + 1, TickerStep(d, cs[i]))

\* cs is self._commodities when _rebuild_indices runs.
_rebuild_indices(cs) ==
    /\ by_isin' = BuildByIsin(cs, 1, <<>>)
    /\ by_figi' = BuildByFigi(cs, 1, <<>>)
    /\ by_name' = BuildByName(cs, 1, <<>>)
    /\ by_ticker' = BuildByTicker(cs, 1, <<>>)

(***************************************************************************)
(* registry.py: the lookups                                                *)
(***************************************************************************)
\* Probes that try the name before the ISIN.
Probes_NameFirst(token) ==
    LET c1 == IF token \in DOMAIN by_name THEN <<by_name[token]>> ELSE <<>>
        c2 == c1 \o DictGet(by_isin, token, <<>>)
    IN IF token \in DOMAIN by_figi THEN Append(c2, by_figi[token]) ELSE c2

\* The three probes, concatenated: ISIN list, then name, then FIGI.
Probes(token) ==
    LET c1 == DictGet(by_isin, token, <<>>)
        c2 == IF token \in DOMAIN by_name THEN Append(c1, by_name[token]) ELSE c1
    IN IF token \in DOMAIN by_figi THEN Append(c2, by_figi[token]) ELSE c2

\* The deduplication loop: seen holds the names already taken.
RECURSIVE Deduplicate(_, _, _, _)
Deduplicate(candidates, i, seen, unique_candidates) ==
    IF i > Len(candidates) THEN unique_candidates
    ELSE LET c == candidates[i] IN
         IF c.name \notin seen
         THEN Deduplicate(candidates, i + 1, seen \cup {c.name}, Append(unique_candidates, c))
         ELSE Deduplicate(candidates, i + 1, seen, unique_candidates)

\* A filter that lets every currency through.
CurrencyMatch_Any(c, currency) == TRUE

\* [c for c in unique_candidates if c.currency.upper() == currency]
CurrencyMatch(c, currency) == upper(c.currency) = currency

CurrencyFilter(cands, currency) ==
    LET cur == upper(currency) IN SelectSeq(cands, LAMBDA c : CurrencyMatch(c, cur))

find_candidates(token, currency) ==
    IF ~Truthy(token) THEN <<>>
    ELSE LET unique_candidates == Deduplicate(Probes(upper(token)), 1, {}, <<>>)
         IN IF Truthy(currency) THEN CurrencyFilter(unique_candidates, currency)
            ELSE unique_candidates

\* A find_by_isin that takes the last candidate instead of the first.
find_by_isin_Last(isin, currency) ==
    LET ms == find_candidates(isin, currency)
    IN IF ms # <<>> THEN ms[Len(ms)] ELSE NoCommodity

find_by_isin(isin, currency) ==
    LET ms == find_candidates(isin, currency)
    IN IF ms # <<>> THEN ms[1] ELSE NoCommodity

find_by_ticker(provider, ticker) ==
    DictGet(by_ticker, TickerKey(provider, ticker), NoCommodity)

(***************************************************************************)
(* Paths and the file system.  A path is the sequence of its components;   *)
(* fs maps the path of every existing file to its document; the            *)
(* directories are fixed.                                                  *)
(***************************************************************************)
nR      == <<114>>                               \* "r"
nS      == <<115>>                               \* "s"
nData   == <<100, 97, 116, 97>>                  \* "data": the bundled directory
nBtxt   == <<98, 46, 116, 120, 116>>             \* "b.txt"
nCyml   == <<99, 46, 121, 109, 108>>             \* "c.yml"
nSyaml  == <<115, 46, 121, 97, 109, 108>>        \* "s.yaml"
nFtxt   == <<102, 46, 116, 120, 116>>            \* "f.txt"
nZyaml  == <<122, 46, 121, 97, 109, 108>>        \* "z.yaml"
nKtxt   == <<107, 46, 116, 120, 116>>            \* "k.txt"
extYaml == <<46, 121, 97, 109, 108>>             \* ".yaml"
extYml  == <<46, 121, 109, 108>>                 \* ".yml"

BundledDir == <<nData>>
Dirs == {<<nR>>, <<nR, nS>>, BundledDir}

\* The places where a file may be, in no particular order.
FileSlots ==
    << <<nR, nSyaml>>, <<nR, nBtxt>>, <<nR, nS, nCyml>>,
       <<nFtxt>>, <<nData, nZyaml>>, <<nData, nKtxt>> >>

\* The directories: those there from the start and those made since.
Directories == Dirs \cup world.dirs

is_dir(path)  == path \in Directories
is_file(path) == path \in DOMAIN fs
exists(path)  == is_dir(path) \/ is_file(path)

\* PurePath.name and PurePath.suffix: the suffix starts at the last dot of the
\* name, unless that dot is its first or last character.
PathName(path) == path[Len(path)]
suffix(path) ==
    LET name == PathName(path)
        dots == {i \in DOMAIN name : name[i] = 46}
    IN IF dots = {} THEN <<>>
       ELSE LET i == CHOOSE d \in dots : \A e \in dots : e <= d
            IN IF i > 1 /\ i < Len(name) THEN SubSeq(name, i, Len(name)) ELSE <<>>

\* str.endswith
endswith(str, suf) ==
    Len(str) >= Len(suf) /\ SubSeq(str, Len(str) - Len(suf) + 1, Len(str)) = suf

\* The order of str, by code point.
RECURSIVE StrLess(_, _)
StrLess(a, b) ==
    IF b = <<>> THEN FALSE
    ELSE IF a = <<>> THEN TRUE
    ELSE IF a[1] # b[1] THEN a[1] < b[1]
    ELSE StrLess(Tail(a), Tail(b))

\* The path written out, its components joined by "/".
RECURSIVE Joined(_)
Joined(path) ==
    IF Len(path) <= 1 THEN (IF path = <<>> THEN <<>> ELSE path[1])
    ELSE path[1] \o <<47>> \o Joined(Tail(path))

\* An order of paths that compares them as written-out strings.
PathLess_AsString(a, b) == StrLess(Joined(a), Joined(b))

\* The order of paths: by component.
RECURSIVE PathLess(_, _)
PathLess(a, b) ==
    IF b = <<>> THEN FALSE
    ELSE IF a = <<>> THEN TRUE
    ELSE IF a[1] # b[1] THEN StrLess(a[1], b[1])
    ELSE PathLess(Tail(a), Tail(b))

\* sorted(...)
RECURSIVE sorted(_)
sorted(S) ==
    IF S = {} THEN <<>>
    ELSE LET m == CHOOSE x \in S : \A y \in S : x = y \/ PathLess(x, y)
         IN <<m>> \o sorted(S \ {m})

\* path.rglob("*"): everything below path.
rglob(path) ==
    {q \in Directories \cup DOMAIN fs : Len(q) > Len(path) /\ SubSeq(q, 1, Len(path)) = path}

\* data_dir.iterdir(): the entries of the directory, in an order of the
\* system's choosing.
iterdir(dir) == {q \in Directories \cup DOMAIN fs : Len(q) = Len(dir) + 1 /\ SubSeq(q, 1, Len(dir)) = dir}

Orders(S) == {o \in [1..Cardinality(S) -> S] : \A x \in S : \E i \in DOMAIN o : o[i] = x}

(***************************************************************************)
(* Documents.  A document is unreadable text, the null document or a       *)
(* mapping: keys are its top-level keys as written, commodities the value  *)
(* of its "commodities" key, a list of mappings.  A raw record has the     *)
(* keys written in it (keys) and the values of the last of each.           *)
(***************************************************************************)
\* StrictSafeLoader.construct_mapping: the keys seen so far are in mapping.
RECURSIVE HasDuplicateKey(_, _, _)
HasDuplicateKey(keys, i, mapping) ==
    IF i > Len(keys) THEN FALSE
    ELSE IF keys[i] \in mapping THEN TRUE
    ELSE HasDuplicateKey(keys, i + 1, mapping \cup {keys[i]})

\* yaml.load(f, Loader=StrictSafeLoader): the data, or the error raised.
yaml_load(doc) ==
    IF doc.kind = "unreadable" THEN [kind |-> "ScannerError", data |-> doc]
    ELSE IF doc.kind = "mapping"
            /\ \/ HasDuplicateKey(doc.keys, 1, {})
               \/ \E i \in DOMAIN doc.commodities :
                      HasDuplicateKey(doc.commodities[i].keys, 1, {})
    THEN [kind |-> "ConstructorError", data |-> doc]
    ELSE [kind |-> "ok", data |-> doc]

\* "not data": None, a mapping without keys, or a list without items.
Falsy(data) ==
    \/ data.kind = "null"
    \/ data.kind = "mapping" /\ data.keys = <<>>
    \/ data.kind = "list" /\ data.commodities = <<>>

\* Commodity(**raw): the required fields are there and every validator accepts.
CommodityValid(raw) ==
    /\ \A k \in {"name", "instrument_type", "asset_class", "currency"} :
           \E i \in DOMAIN raw.keys : raw.keys[i] = k
    /\ validate_name(raw.name).kind = "ok"
    /\ validate_isin(raw.isin).kind = "ok"
    /\ validate_currency(raw.currency).kind = "ok"

\* The Commodity built from a valid raw record, the i-th object loaded: the
\* ISIN is the validator's return value.
Commodity(raw, i) ==
    [id |-> i, name |-> raw.name, isin |-> validate_isin(raw.isin).value,
     figi |-> raw.figi, currency |-> raw.currency, issuer |-> raw.issuer,
     tickers |-> raw.tickers]

\* A CommodityFile that drops the invalid records and keeps the others.
CommodityFile_SkipInvalid(data) ==
    IF data.kind = "list" THEN [kind |-> "TypeError", commodities |-> <<>>]
    ELSE IF \A i \in DOMAIN data.keys : data.keys[i] # "commodities"
    THEN [kind |-> "ValidationError", commodities |-> <<>>]
    ELSE [kind |-> "ok", commodities |-> SelectSeq(data.commodities, CommodityValid)]

\* CommodityFile(**data): the records, or the validation error; a list
\* cannot be unpacked as keyword arguments.
CommodityFile(data) ==
    IF data.kind = "list" THEN [kind |-> "TypeError", commodities |-> <<>>]
    ELSE IF \A i \in DOMAIN data.keys : data.keys[i] # "commodities"
    THEN [kind |-> "ValidationError", commodities |-> <<>>]
    ELSE IF \E i \in DOMAIN data.commodities : ~CommodityValid(data.commodities[i])
    THEN [kind |-> "ValidationError", commodities |-> <<>>]
    ELSE [kind |-> "ok", commodities |-> data.commodities]

(***************************************************************************)
(* registry.py: the loader.  A loader state st holds _commodities,          *)
(* _load_errors and the exception that left the loader, if one did.        *)
(***************************************************************************)
\* f"Error loading {path}: {e}"
ErrorMessage(path, e) == [text |-> "Error loading ", path |-> path, sep |-> ": ", detail |-> e]

\* self._commodities.extend(file_model.commodities)
Extend(cs, raws) ==
    cs \o [i \in DOMAIN raws |-> Commodity(raws[i], Len(cs) + i)]

\* "except Exception": every error raised in the try block is caught.
Caught(e) == TRUE

\* An error e raised in the try block: the handler records it, or it leaves.
Failed(st, path, e) ==
    IF Caught(e)
    THEN [st EXCEPT !.load_errors = Append(st.load_errors, ErrorMessage(path, e))]
    ELSE [st EXCEPT !.raised = e]

_load_file(st, path) ==
    IF st.raised # "none" \/ ~exists(path) THEN st
    ELSE LET loaded == yaml_load(fs[path]) IN
         IF loaded.kind # "ok" THEN Failed(st, path, loaded.kind)
         ELSE IF Falsy(loaded.data) THEN st
         ELSE LET file_model == CommodityFile(loaded.data) IN
              IF file_model.kind # "ok" THEN Failed(st, path, file_model.kind)
              ELSE [st EXCEPT !.commodities = Extend(st.commodities, file_model.commodities)]

\* _load_file for each path of a sequence, in order.
RECURSIVE LoadFiles(_, _, _)
LoadFiles(st, paths, i) ==
    IF i > Len(paths) THEN st ELSE LoadFiles(_load_file(st, paths[i]), paths, i + 1)

\* The filter of load_path's loop.
IsDataFile(q) == is_file(q) /\ suffix(q) \in {extYaml, extYml}

load_path(st, path) ==
    IF is_dir(path)
    THEN LoadFiles(st, SelectSeq(sorted(rglob(path)), IsDataFile), 1)
    ELSE _load_file(st, path)

RECURSIVE LoadPaths(_, _, _)
LoadPaths(st, paths, i) ==
    IF i > Len(paths) THEN st ELSE LoadPaths(load_path(st, paths[i]), paths, i + 1)

\* resources.py, get_commodity_files: the bundled entries named *.yaml or
\* *.yml, as iterdir yields them.
BundledEntries ==
    IF ~is_dir(BundledDir) THEN {}
    ELSE {q \in iterdir(BundledDir) :
            endswith(PathName(q), extYaml) \/ endswith(PathName(q), extYml)}

\* load_bundled_data, for one order of iteration.
load_bundled_data(st, order) == LoadFiles(st, order, 1)

(***************************************************************************)
(* The registry after loading: the bounded inputs                          *)
(***************************************************************************)
MaxRecords == 2

sAAPL  == <<65, 65, 80, 76>>                                   \* "AAPL"
sAapl  == <<97, 97, 112, 108>>                                 \* "aapl"
sISIN1 == <<85, 83, 48, 51, 55, 56, 51, 51, 49, 48, 48, 53>>   \* "US0378331005"
sIsin1 == <<117, 115, 48, 51, 55, 56, 51, 51, 49, 48, 48, 53>> \* "us0378331005"
sISIN2 == <<71, 66, 48, 48, 66, 48, 48, 70, 72, 90, 56, 50>>   \* "GB00B00FHZ82"
sUSD   == <<85, 83, 68>>                                       \* "USD"
sUsd   == <<117, 115, 100>>                                    \* "usd"
sEUR   == <<69, 85, 82>>                                       \* "EUR"
sX     == <<88>>                                               \* "X"
sx     == <<120>>                                              \* "x"
sZZ    == <<90, 90>>                                           \* "ZZ"
sOwner == <<111>>                                              \* "o"

\* The canonical names: the second one is also an ISIN, so that one token can
\* hit the ISIN index and the name index at once.
Names == {sAAPL, sISIN1}

\* Records that differ in their identifiers and currency ...
IdentifierRecords ==
    { r \in { [name |-> n, isin |-> i, figi |-> f, currency |-> c, issuer |-> None,
               tickers |-> NoTickers] :
               n \in Names, i \in {None, sISIN1}, f \in {None, sAapl}, c \in {sUSD, sEUR} } :
      r.name = sISIN1 => r.currency = sEUR }

\* ... and records of one ISIN that differ in issuer and tickers.
ListingRecords ==
    { [name |-> sAAPL, isin |-> sISIN2, figi |-> <<>>, currency |-> sUSD, issuer |-> None,
       tickers |-> [present |-> TRUE, yahoo |-> sx, ft |-> None, google |-> <<>>]],
      [name |-> sAAPL, isin |-> sISIN2, figi |-> <<>>, currency |-> sUSD, issuer |-> sOwner,
       tickers |-> [present |-> TRUE, yahoo |-> sX, ft |-> sX, google |-> None]] }

RecordUniverse == {c \in IdentifierRecords \cup ListingRecords : SchemaValid(c)}

\* The object built from the fields r, the i-th to be loaded.
Loaded(r, i) ==
    [id |-> i, name |-> r.name, isin |-> r.isin, figi |-> r.figi,
     currency |-> r.currency, issuer |-> r.issuer, tickers |-> r.tickers]

RecordSeqs ==
    UNION { { [i \in 1..n |-> Loaded(f[i], i)] : f \in [1..n -> RecordUniverse] } :
            n \in 0..MaxRecords }

Tokens        == {<<>>, sAAPL, sAapl, sISIN1, sIsin1, sISIN2, sZZ}
IsinArgs      == {sISIN1, sIsin1, sISIN2, sZZ}
CurrencyArgs  == {None, <<>>, sUSD, sUsd, sEUR}
ProviderArgs  == {ProviderStr("yahoo"), upper(ProviderStr("yahoo")), ProviderStr("ft"),
                  ProviderStr("google"), sZZ}
TickerArgs    == {sx, sX, sZZ, <<>>}

NoCall == [op |-> "none", token |-> None, currency |-> None, provider |-> None]

(***************************************************************************)
(* The registry: the index build that ends __init__, then lookups          *)
(***************************************************************************)
Init ==
    /\ commodities \in RecordSeqs
    /\ load_errors = <<>>
    /\ by_isin = <<>> /\ by_figi = <<>> /\ by_name = <<>> /\ by_ticker = <<>>
    /\ fs = <<>> /\ include_bundled = FALSE /\ extra_paths = <<>>
    /\ pc = "loaded"
    /\ call = NoCall
    /\ matches = <<>>
    /\ found = NoCommodity
    /\ value = None
    /\ outcome = NoOutcome
    /\ proc = NoProc
    /\ world = NoWorld

RebuildIndices ==
    /\ pc = "loaded"
    /\ _rebuild_indices(commodities)
    /\ pc' = "ready"
    /\ UNCHANGED <<commodities, load_errors, fs, include_bundled, extra_paths, call, matches, found, value, outcome, proc, world>>

FindCandidates(token, currency) ==
    /\ pc = "ready"
    /\ call' = [op |-> "find_candidates", token |-> token, currency |-> currency,
                provider |-> None]
    /\ matches' = find_candidates(token, currency)
    /\ found' = NoCommodity
    /\ pc' = "returned"
    /\ UNCHANGED <<commodities, load_errors, by_isin, by_figi, by_name, by_ticker,
                   fs, include_bundled, extra_paths, value, outcome, proc, world>>

FindByIsin(isin, currency) ==
    /\ pc = "ready"
    /\ call' = [op |-> "find_by_isin", token |-> isin, currency |-> currency,
                provider |-> None]
    /\ found' = find_by_isin(isin, currency)
    /\ matches' = <<>>
    /\ pc' = "returned"
    /\ UNCHANGED <<commodities, load_errors, by_isin, by_figi, by_name, by_ticker,
                   fs, include_bundled, extra_paths, value, outcome, proc, world>>

FindByTicker(provider, ticker) ==
    /\ pc = "ready"
    /\ call' = [op |-> "find_by_ticker", token |-> ticker, currency |-> None,
                provider |-> provider]
    /\ found' = find_by_ticker(provider, ticker)
    /\ matches' = <<>>
    /\ pc' = "returned"
    /\ UNCHANGED <<commodities, load_errors, by_isin, by_figi, by_name, by_ticker,
                   fs, include_bundled, extra_paths, value, outcome, proc, world>>

\* The caller takes the result; the registry is ready for the next lookup.
Return ==
    /\ pc = "returned"
    /\ pc' = "ready"
    /\ call' = NoCall
    /\ matches' = <<>>
    /\ found' = NoCommodity
    /\ UNCHANGED <<commodities, load_errors, by_isin, by_figi, by_name, by_ticker,
                   fs, include_bundled, extra_paths, value, outcome, proc, world>>

Next ==
    \/ RebuildIndices
    \/ Return
    \/ \E token \in Tokens, currency \in CurrencyArgs : FindCandidates(token, currency)
    \/ \E isin \in IsinArgs, currency \in CurrencyArgs : FindByIsin(isin, currency)
    \/ \E provider \in ProviderArgs, ticker \in TickerArgs : FindByTicker(provider, ticker)

Spec == Init /\ [][Next]_vars

(***************************************************************************)
(* Helpers of the properties                                               *)
(***************************************************************************)
Returned(op) == pc = "returned" /\ call.op = op
Built == pc \in {"ready", "returned"}

\* The elements of a sequence.
Range(s) == {s[i] : i \in DOMAIN s}

\* The subsequence of s at the positions in idx, in increasing order.
SubAt(s, idx) ==
    [k \in 1..Cardinality(idx) |->
        s[CHOOSE i \in idx : Cardinality({j \in idx : j < i}) = k - 1]]

\* The largest member of a non-empty set of positions.
Last(idx) == CHOOSE i \in idx : \A j \in idx : j <= i

\* str.lower()
lower(s) == [i \in DOMAIN s |-> IF IsUpperChar(s[i]) THEN s[i] + 32 ELSE s[i]]

\* The load positions of the records with ISIN / name / FIGI t (uppercased).
WithIsin(t) == {i \in DOMAIN commodities :
                  Truthy(commodities[i].isin) /\ upper(commodities[i].isin) = t}
WithName(t) == {i \in DOMAIN commodities : upper(commodities[i].name) = t}
WithFigi(t) == {i \in DOMAIN commodities :
                  Truthy(commodities[i].figi) /\ upper(commodities[i].figi) = t}

(***************************************************************************)
(* C1: find_candidates(token, currency) is the concatenation of the        *)
(* by_isin entries of the uppercased token, the by_name match and the      *)
(* by_figi match, without the records whose canonical name occurred        *)
(* earlier in it, restricted to the given (non-empty) currency, compared   *)
(* without regard to case; it is empty when nothing matches.               *)
(***************************************************************************)
C1_Concat(t) ==
    (IF t \in DOMAIN by_isin THEN by_isin[t] ELSE <<>>)
    \o (IF t \in DOMAIN by_name THEN <<by_name[t]>> ELSE <<>>)
    \o (IF t \in DOMAIN by_figi THEN <<by_figi[t]>> ELSE <<>>)

C1_Reference(token, currency) ==
    LET cat == C1_Concat(upper(token))
        keep == {i \in DOMAIN cat :
                   /\ \A j \in 1..(i - 1) : cat[j].name # cat[i].name
                   /\ Truthy(currency) => upper(cat[i].currency) = upper(currency)}
    IN SubAt(cat, keep)

C1_FindCandidatesIsReference ==
    Returned("find_candidates") => matches = C1_Reference(call.token, call.currency)

\* A call where all of it happens: three probes hit, a name repeats, and the
\* currency filter drops a record.
C1_Witness ==
    /\ Returned("find_candidates")
    /\ Truthy(call.currency)
    /\ Len(C1_Concat(upper(call.token))) = 3
    /\ Len(matches) = 1
    /\ Len(C1_Reference(call.token, None)) = 2

(***************************************************************************)
(* C2 as stated: whenever two loaded records carry the same ISIN,          *)
(* find_candidates(isin) with no currency returns both, the later-loaded   *)
(* one before the earlier-loaded one.                                      *)
(***************************************************************************)
Precedes(a, b) ==
    \E p, q \in DOMAIN matches : p < q /\ matches[p] = a /\ matches[q] = b

C2_BothReturnedLaterFirst ==
    Returned("find_candidates") /\ call.currency = None =>
        \A i, j \in WithIsin(upper(call.token)) :
            i < j => Precedes(commodities[j], commodities[i])

(***************************************************************************)
(* C2 amended: of the records carrying the ISIN, find_candidates(isin)     *)
(* with no currency returns exactly those whose canonical name is not      *)
(* borne by a later-loaded record of that ISIN, the later-loaded before    *)
(* the earlier-loaded.                                                     *)
(***************************************************************************)
C2_Kept(t) ==
    {i \in WithIsin(t) :
        \A j \in WithIsin(t) : j > i => commodities[j].name # commodities[i].name}

C2_LatestPerNameLaterFirst ==
    Returned("find_candidates") /\ call.currency = None =>
        LET t == upper(call.token) IN
        /\ \A i \in C2_Kept(t) : commodities[i] \in Range(matches)
        /\ \A i \in WithIsin(t) \ C2_Kept(t) : commodities[i] \notin Range(matches)
        /\ \A i, j \in C2_Kept(t) : i < j => Precedes(commodities[j], commodities[i])

\* Two records of one ISIN under two names: both returned, the later first.
C2_Witness ==
    /\ Returned("find_candidates") /\ call.currency = None
    /\ Cardinality(C2_Kept(upper(call.token))) = 2
    /\ Len(matches) >= 2
    /\ matches[1].id = 2 /\ matches[2].id = 1

(***************************************************************************)
(* C3: when some record has ISIN i, find_by_isin(i) with no currency is    *)
(* the most recently loaded record whose ISIN is i, whole: every field is  *)
(* that record's.                                                          *)
(***************************************************************************)
C3_FindByIsinIsLatestWhole ==
    Returned("find_by_isin") /\ call.currency = None
    /\ WithIsin(upper(call.token)) # {} =>
        found = commodities[Last(WithIsin(upper(call.token)))]

\* The later record of the ISIN differs from the earlier one in issuer and
\* tickers, and it is the one returned.
C3_Witness ==
    /\ Returned("find_by_isin") /\ call.currency = None
    /\ WithIsin(upper(call.token)) = {1, 2}
    /\ commodities[1].issuer # commodities[2].issuer
    /\ commodities[1].tickers # commodities[2].tickers
    /\ found.id = 2 /\ found.issuer = commodities[2].issuer

(***************************************************************************)
(* C4: after the build, by_name, by_figi and by_ticker hold, under each    *)
(* key, the LAST record in load order with that uppercased name, that      *)
(* uppercased FIGI, or that non-empty provider/ticker pair; a record       *)
(* without a FIGI adds no by_figi key, and an empty ticker adds no         *)
(* by_ticker key.                                                          *)
(***************************************************************************)
\* The load positions of the records listing a non-empty ticker under key k.
WithTickerKey(k) ==
    {i \in DOMAIN commodities :
        /\ commodities[i].tickers.present
        /\ \E j \in DOMAIN Providers :
              LET t == commodities[i].tickers[Providers[j]]
              IN Truthy(t) /\ upper(ProviderStr(Providers[j])) \o <<58>> \o upper(t) = k}

C4_TickerKeys ==
    {upper(ProviderStr(Providers[j])) \o <<58>> \o upper(commodities[i].tickers[Providers[j]]) :
        <<i, j>> \in {x \in (DOMAIN commodities) \X (DOMAIN Providers) :
                        /\ commodities[x[1]].tickers.present
                        /\ Truthy(commodities[x[1]].tickers[Providers[x[2]]])}}

C4_IndicesHoldLast ==
    Built =>
        /\ DOMAIN by_name = {upper(commodities[i].name) : i \in DOMAIN commodities}
        /\ \A k \in DOMAIN by_name : by_name[k] = commodities[Last(WithName(k))]
        /\ DOMAIN by_figi = {upper(commodities[i].figi) :
                               i \in {x \in DOMAIN commodities : Truthy(commodities[x].figi)}}
        /\ \A k \in DOMAIN by_figi : by_figi[k] = commodities[Last(WithFigi(k))]
        /\ DOMAIN by_ticker = C4_TickerKeys
        /\ \A k \in DOMAIN by_ticker : by_ticker[k] = commodities[Last(WithTickerKey(k))]

\* Two records share a name and a ticker key: the later one is indexed; one
\* lists an empty ticker and neither has a FIGI.
C4_Witness ==
    /\ Built
    /\ Len(commodities) = 2
    /\ \E k \in DOMAIN by_ticker : WithTickerKey(k) = {1, 2} /\ by_ticker[k].id = 2
    /\ \E i \in DOMAIN commodities : commodities[i].tickers.google = <<>>
    /\ WithName(upper(commodities[1].name)) = {1, 2}
    /\ DOMAIN by_figi = {}

\* Two records share a FIGI, written in lower case: the later one is indexed
\* under the upper-cased key.
C4_WitnessFigi ==
    /\ Built
    /\ \E k \in DOMAIN by_figi : WithFigi(k) = {1, 2} /\ by_figi[k].id = 2

(***************************************************************************)
(* C5 as stated: after the build, for every loaded record r, the by-name   *)
(* index under r's own uppercased name holds exactly r.                    *)
(***************************************************************************)
C5_OwnNameReturnsRecord ==
    Built =>
        \A i \in DOMAIN commodities :
            /\ upper(commodities[i].name) \in DOMAIN by_name
            /\ by_name[upper(commodities[i].name)] = commodities[i]

(***************************************************************************)
(* C5 amended: after the build, for every loaded record r, the by-name     *)
(* index under r's own uppercased name holds the last-loaded record of     *)
(* that name: r itself exactly when no later-loaded record bears it.       *)
(***************************************************************************)
C5_OwnNameReturnsLatest ==
    Built =>
        \A i \in DOMAIN commodities :
            LET k == upper(commodities[i].name) IN
            /\ k \in DOMAIN by_name
            /\ upper(by_name[k].name) = k
            /\ by_name[k].id >= i
            /\ by_name[k] = commodities[i] <=>
                  \A j \in DOMAIN commodities :
                      j > i => upper(commodities[j].name) # k

\* A record whose name a later record bears, and one whose name none does.
C5_Witness ==
    /\ Built
    /\ Len(commodities) = 2
    /\ commodities[1].name = commodities[2].name
    /\ by_name[upper(commodities[1].name)] = commodities[2]
    /\ commodities[1] # commodities[2]

(***************************************************************************)
(* C6: with a non-empty currency argument c, in any letter case, every     *)
(* record returned by find_candidates(token, c) and find_by_isin(token, c) *)
(* has currency c uppercased; a token matching only records of other       *)
(* currencies gives the empty list / no record.                            *)
(***************************************************************************)
\* The records the token matches under any of the three indices.
MatchingToken(token) ==
    WithIsin(upper(token)) \cup WithName(upper(token)) \cup WithFigi(upper(token))

C6_OnlyRequestedCurrency ==
    /\ Returned("find_candidates") /\ Truthy(call.currency) =>
          /\ \A i \in DOMAIN matches : matches[i].currency = upper(call.currency)
          /\ (\A i \in MatchingToken(call.token) :
                 commodities[i].currency # upper(call.currency)) => matches = <<>>
    /\ Returned("find_by_isin") /\ Truthy(call.currency) =>
          /\ found # NoCommodity => found.currency = upper(call.currency)
          /\ (\A i \in MatchingToken(call.token) :
                 commodities[i].currency # upper(call.currency)) => found = NoCommodity

\* A lower-case currency argument: one matching record is returned, another
\* one of a different currency is left out.
C6_Witness ==
    /\ Returned("find_candidates")
    /\ call.currency = sUsd
    /\ Len(matches) = 1
    /\ \E i \in MatchingToken(call.token) : commodities[i].currency = sEUR

\* The token matches records, all of another currency: no record.
C6_WitnessAbsent ==
    /\ Returned("find_by_isin")
    /\ Truthy(call.currency)
    /\ MatchingToken(call.token) # {}
    /\ found = NoCommodity

(***************************************************************************)
(* C7: the lookups do not depend on the letter case of their arguments:    *)
(* find_candidates, find_by_isin and find_by_ticker return the same for    *)
(* the arguments upper-cased and lower-cased; find_by_ticker returns no    *)
(* record when no record lists the provider/ticker pair.                   *)
(***************************************************************************)
\* None stays None.
Recase(f(_), s) == IF s = None THEN None ELSE f(s)

Listed(provider, ticker) ==
    {i \in DOMAIN commodities :
        /\ commodities[i].tickers.present
        /\ \E j \in DOMAIN Providers :
              /\ upper(ProviderStr(Providers[j])) = upper(provider)
              /\ Truthy(commodities[i].tickers[Providers[j]])
              /\ upper(commodities[i].tickers[Providers[j]]) = upper(ticker)}

C7_CaseInsensitiveLookups ==
    /\ Returned("find_candidates") =>
          /\ matches = find_candidates(upper(call.token), Recase(lower, call.currency))
          /\ matches = find_candidates(lower(call.token), Recase(upper, call.currency))
    /\ Returned("find_by_isin") =>
          /\ found = find_by_isin(upper(call.token), Recase(lower, call.currency))
          /\ found = find_by_isin(lower(call.token), Recase(upper, call.currency))
    /\ Returned("find_by_ticker") =>
          /\ found = find_by_ticker(upper(call.provider), lower(call.token))
          /\ found = find_by_ticker(lower(call.provider), upper(call.token))
          /\ Listed(call.provider, call.token) = {} => found = NoCommodity

\* A lower-case ticker under an upper-case provider finds the record that
\* lists it in the other case.
C7_Witness ==
    /\ Returned("find_by_ticker")
    /\ call.provider = upper(ProviderStr("yahoo")) /\ call.token = sx
    /\ found # NoCommodity
    /\ found.tickers.yahoo = sX

\* A provider/ticker pair that no record lists.
C7_WitnessAbsent ==
    /\ Returned("find_by_ticker")
    /\ by_ticker # <<>>
    /\ Truthy(call.token)
    /\ Listed(call.provider, call.token) = {}
    /\ found = NoCommodity

(***************************************************************************)
(* The constructor over a file system: the bounded inputs                  *)
(***************************************************************************)
MaxFiles == 2
MaxPaths == 2

sBadIsin == <<85, 83, 48, 51, 55, 56, 51, 51, 49, 48, 48, 54>>   \* "US0378331006"
FieldKeys == <<"name", "isin", "instrument_type", "asset_class", "currency">>

SlotOf(path) == CHOOSE k \in DOMAIN FileSlots : FileSlots[k] = path

\* The record written in the file at slot k: its name is the k-th letter, its
\* ISIN is written in lower case.
RawGood(k) ==
    [keys |-> FieldKeys, name |-> <<64 + k>>, isin |-> sIsin1, figi |-> None,
     currency |-> sUSD, issuer |-> None, tickers |-> NoTickers]
\* A record whose ISIN fails the checksum.
RawBadIsin(k) == [RawGood(k) EXCEPT !.name = <<74, 64 + k>>, !.isin = sBadIsin]
\* A record that writes its name twice.
RawTwice(k) == [RawGood(k) EXCEPT !.keys = <<"name">> \o FieldKeys]

NullDoc == [kind |-> "null", keys |-> <<>>, commodities |-> <<>>]
DocKinds == {"good", "null", "duplicate", "invalid", "unreadable"}
DocOf(k, kind) ==
    CASE kind = "good"       -> [kind |-> "mapping", keys |-> <<"commodities">>,
                                 commodities |-> <<RawGood(k)>>]
      [] kind = "null"       -> NullDoc
      [] kind = "duplicate"  -> [kind |-> "mapping", keys |-> <<"commodities">>,
                                 commodities |-> <<RawGood(k), RawTwice(k)>>]
      [] kind = "invalid"    -> [kind |-> "mapping", keys |-> <<"commodities">>,
                                 commodities |-> <<RawGood(k), RawBadIsin(k)>>]
      [] kind = "unreadable" -> [kind |-> "unreadable", keys |-> <<>>, commodities |-> <<>>]

\* A file that no load reads (b.txt in a directory, k.txt in the bundled
\* data) holds a good document: were it read, its record would show.
KindsAt(q) == IF q \in {<<nR, nBtxt>>, <<nData, nKtxt>>} THEN {"good"} ELSE DocKinds

FileSystems ==
    UNION { { [q \in S |-> DocOf(SlotOf(q), kinds[q])] :
              kinds \in {k \in [S -> DocKinds] : \A q \in S : k[q] \in KindsAt(q)} } :
            S \in {T \in SUBSET Range(FileSlots) : Cardinality(T) <= MaxFiles} }

\* A directory and a file given directly; the file is a missing path in the
\* file systems that do not hold it.
PathArgs == {<<nR>>, <<nFtxt>>}
PathLists == UNION {[1..n -> PathArgs] : n \in 0..MaxPaths}

(***************************************************************************)
(* CommodityRegistry.__init__                                              *)
(***************************************************************************)
InitLoad ==
    /\ fs \in FileSystems
    /\ include_bundled \in BOOLEAN
    /\ extra_paths \in PathLists
    /\ commodities = <<>> /\ load_errors = <<>>
    /\ by_isin = <<>> /\ by_figi = <<>> /\ by_name = <<>> /\ by_ticker = <<>>
    /\ pc = "new"
    /\ call = NoCall
    /\ matches = <<>>
    /\ found = NoCommodity
    /\ value = None
    /\ outcome = NoOutcome
    /\ proc = NoProc
    /\ world = NoWorld

Construct ==
    /\ pc = "new"
    /\ \E order \in Orders(BundledEntries) :
          LET st0 == [commodities |-> <<>>, load_errors |-> <<>>, raised |-> "none"]
              st1 == IF include_bundled THEN load_bundled_data(st0, order) ELSE st0
              st2 == LoadPaths(st1, extra_paths, 1)
          IN /\ commodities' = st2.commodities
             /\ load_errors' = st2.load_errors
             /\ IF st2.raised = "none"
                THEN _rebuild_indices(st2.commodities) /\ pc' = "ready"
                ELSE /\ UNCHANGED <<by_isin, by_figi, by_name, by_ticker>>
                     /\ pc' = "raised"
    /\ UNCHANGED <<fs, include_bundled, extra_paths, call, matches, found, value, outcome, proc, world>>

NextLoad == Construct

SpecLoad == InitLoad /\ [][NextLoad]_vars

(***************************************************************************)
(* Helpers of the loader's properties                                      *)
(***************************************************************************)
\* a is before b: at the first place where they differ, a has ended or has
\* the smaller item.
Before(a, b, less(_, _)) ==
    \E k \in DOMAIN b :
        /\ \A j \in 1..(k - 1) : j <= Len(a) /\ a[j] = b[j]
        /\ k = Len(a) + 1 \/ (k <= Len(a) /\ less(a[k], b[k]))

CodeLess(x, y) == x < y
NameBefore(a, b) == Before(a, b, CodeLess)
PathBefore(a, b) == Before(a, b, NameBefore)

HasDataExtension(q) == endswith(PathName(q), extYaml) \/ endswith(PathName(q), extYml)

\* The data files below a directory, at any depth, in path order.
Expansion(dir) ==
    LET Y == {q \in DOMAIN fs :
                Len(q) > Len(dir) /\ SubSeq(q, 1, Len(dir)) = dir /\ HasDataExtension(q)}
    IN CHOOSE e \in Orders(Y) : \A i, j \in DOMAIN e : i < j => PathBefore(e[i], e[j])

\* The files an extra path stands for.
FilesOf(path) ==
    IF path \in Dirs THEN Expansion(path)
    ELSE IF path \in DOMAIN fs THEN <<path>> ELSE <<>>

RECURSIVE Flatten(_)
Flatten(ss) == IF ss = <<>> THEN <<>> ELSE Head(ss) \o Flatten(Tail(ss))

ExtraFiles == Flatten([i \in DOMAIN extra_paths |-> FilesOf(extra_paths[i])])

BundledFiles == {q \in DOMAIN fs : Len(q) = 2 /\ q[1] = nData /\ HasDataExtension(q)}

\* A file that does not load: unreadable, a key written twice in one mapping,
\* or a non-empty mapping without a valid "commodities" list.
Twice(keys) == \E i, j \in DOMAIN keys : i < j /\ keys[i] = keys[j]
Fails(doc) ==
    \/ doc.kind = "unreadable"
    \/ /\ doc.kind = "mapping"
       /\ \/ Twice(doc.keys)
          \/ \E i \in DOMAIN doc.commodities : Twice(doc.commodities[i].keys)
          \/ doc.keys # <<>> /\ "commodities" \notin Range(doc.keys)
          \/ \E i \in DOMAIN doc.commodities :
                LET raw == doc.commodities[i] IN
                \/ ~({"name", "instrument_type", "asset_class", "currency"} \subseteq Range(raw.keys))
                \/ validate_name(raw.name).kind # "ok"
                \/ validate_isin(raw.isin).kind # "ok"
                \/ validate_currency(raw.currency).kind # "ok"

\* The fields of the records a file contributes, without their identity.
Fields(c) == [c EXCEPT !.id = 0]
RecordsOf(path) ==
    IF Fails(fs[path]) THEN <<>>
    ELSE [i \in DOMAIN fs[path].commodities |->
            LET raw == fs[path].commodities[i] IN
            [id |-> 0, name |-> raw.name, isin |-> upper(raw.isin), figi |-> raw.figi,
             currency |-> raw.currency, issuer |-> raw.issuer, tickers |-> raw.tickers]]

RecordsOfAll(files) == Flatten([i \in DOMAIN files |-> RecordsOf(files[i])])

\* The load sequences the constructor may have followed.
LoadSequences ==
    {(IF include_bundled THEN order ELSE <<>>) \o ExtraFiles : order \in Orders(BundledFiles)}

(***************************************************************************)
(* C8: the record sequence is the concatenation of the records of the      *)
(* bundled files (if enabled), then of each extra path in the order given: *)
(* a directory stands for its .yaml/.yml files at any depth in sorted path *)
(* order, a missing path for nothing; the indices give precedence in that  *)
(* order, the later record first.                                          *)
(***************************************************************************)
C8_RecordsInDiscoveryOrder ==
    pc = "ready" =>
        /\ \E files \in LoadSequences :
               [i \in DOMAIN commodities |-> Fields(commodities[i])] = RecordsOfAll(files)
        /\ \A i \in DOMAIN commodities : commodities[i].id = i
        /\ \A k \in DOMAIN by_name : by_name[k] = commodities[Last(WithName(k))]
        /\ \A k \in DOMAIN by_isin : by_isin[k][1] = commodities[Last(WithIsin(k))]

\* r holds s.yaml and s/c.yml: the nested file is loaded first.
C8_Witness ==
    /\ pc = "ready"
    /\ extra_paths = << <<nR>> >>
    /\ Len(commodities) = 2
    /\ commodities[1].name = RawGood(SlotOf(<<nR, nS, nCyml>>)).name
    /\ commodities[2].name = RawGood(SlotOf(<<nR, nSyaml>>)).name

(***************************************************************************)
(* C9: loading is isolated per file: the constructor always completes;     *)
(* each file that fails to parse (a duplicate key included) or holds a     *)
(* schema-invalid record contributes no record and exactly one             *)
(* "Error loading <path>: <detail>" entry naming it; every other file's    *)
(* records are all loaded; missing paths and empty files add no error; no  *)
(* schema-invalid record is in the record sequence or in an index.         *)
(***************************************************************************)
C9_Failing(files) == SelectSeq(files, LAMBDA q : Fails(fs[q]))

C9_FaultIsolatedLoad ==
    /\ pc # "raised"
    /\ pc = "ready" =>
        /\ \E files \in LoadSequences :
            /\ [i \in DOMAIN commodities |-> Fields(commodities[i])] = RecordsOfAll(files)
            /\ [i \in DOMAIN load_errors |-> load_errors[i].path] = C9_Failing(files)
        /\ \A i \in DOMAIN load_errors :
               load_errors[i].text = "Error loading " /\ load_errors[i].sep = ": "
        /\ \A i \in DOMAIN commodities : SchemaValid(commodities[i])
        /\ \A k \in DOMAIN by_name : SchemaValid(by_name[k])
        /\ \A k \in DOMAIN by_figi : SchemaValid(by_figi[k])
        /\ \A k \in DOMAIN by_ticker : SchemaValid(by_ticker[k])
        /\ \A k \in DOMAIN by_isin : \A i \in DOMAIN by_isin[k] : SchemaValid(by_isin[k][i])

\* A directory with a corrupt file and a valid one: the valid record is
\* loaded and the one error names the corrupt file.
C9_Witness ==
    /\ pc = "ready"
    /\ extra_paths = << <<nR>> >>
    /\ Len(commodities) = 1
    /\ Len(load_errors) = 1
    /\ load_errors[1].path # <<>>
    /\ Fails(fs[load_errors[1].path])
    /\ fs[load_errors[1].path].kind = "mapping"

(***************************************************************************)
(* The ISIN validator on its own: a record is constructed with some isin   *)
(* value and pydantic runs Commodity.validate_isin on it.                  *)
(***************************************************************************)
MaxEdits == 1

IsinStems == {sISIN1, sIsin1, sISIN2}

\* '0' '5' '6' 'A' 's' '-' and the four code points beyond ASCII
IsinAlphabet == {48, 53, 54, 65, 115, 45, 178, 201, 233, 1637}

Substitute(s, p, c) == [s EXCEPT ![p] = c]

\* The strings at most n substitutions away from a string of S.
RECURSIVE Edited(_, _)
Edited(S, n) ==
    IF n = 0 THEN S
    ELSE Edited(S \cup {Substitute(s, p, c) : s \in S, p \in 1..12, c \in IsinAlphabet},
                n - 1)

\* Strings of another length: one character short, one too many, empty.
Resized == {SubSeq(s, 1, 11) : s \in IsinStems} \cup {Append(s, 48) : s \in IsinStems}
           \cup {<<>>}

IsinInputs == Edited(IsinStems, MaxEdits) \cup Resized \cup {None}

InitIsin ==
    /\ value \in IsinInputs
    /\ outcome = NoOutcome
    /\ proc = NoProc
    /\ world = NoWorld
    /\ pc = "field"
    /\ commodities = <<>> /\ load_errors = <<>>
    /\ by_isin = <<>> /\ by_figi = <<>> /\ by_name = <<>> /\ by_ticker = <<>>
    /\ fs = <<>> /\ include_bundled = FALSE /\ extra_paths = <<>>
    /\ call = NoCall
    /\ matches = <<>>
    /\ found = NoCommodity

ValidateIsin ==
    /\ pc = "field"
    /\ outcome' = validate_isin(value)
    /\ pc' = "validated"
    /\ UNCHANGED <<commodities, load_errors, by_isin, by_figi, by_name, by_ticker,
                   fs, include_bundled, extra_paths, call, matches, found, value, proc, world>>

NextIsin == ValidateIsin

SpecIsin == InitIsin /\ [][NextIsin]_vars

(***************************************************************************)
(* C10: the validator against the reference classification.  The reference *)
(* is written over the ISIN alphabet, the digits 0-9 and the letters A-Z,  *)
(* for which code point - 55 has two decimal digits (10..35), and counts   *)
(* positions from the right end of the digit stream.                       *)
(***************************************************************************)
C10_IsDigit(c) == c \in 48..57
C10_IsLetter(c) == c \in 65..90

C10_Expand(c) ==
    IF C10_IsDigit(c) THEN << c - 48 >> ELSE << (c - 55) \div 10, (c - 55) % 10 >>

RECURSIVE C10_Stream(_)
C10_Stream(u) == IF u = <<>> THEN <<>> ELSE C10_Expand(Head(u)) \o C10_Stream(Tail(u))

\* The digit at distance k from the right end (0 for the last digit) counts
\* as itself when k is even, doubled with 9 taken off above 9 when k is odd.
C10_Weighted(d, k) == IF k % 2 = 0 THEN d ELSE IF 2 * d > 9 THEN 2 * d - 9 ELSE 2 * d

RECURSIVE C10_SumFrom(_, _)
C10_SumFrom(ds, j) ==
    IF j > Len(ds) THEN 0 ELSE C10_Weighted(ds[j], Len(ds) - j) + C10_SumFrom(ds, j + 1)

C10_Reference(v0) ==
    LET u == upper(v0) IN
    IF Len(u) # 12 \/ \E i \in DOMAIN u : ~(C10_IsDigit(u[i]) \/ C10_IsLetter(u[i]))
    THEN Err("FormatError")
    ELSE IF ~(C10_IsLetter(u[1]) /\ C10_IsLetter(u[2])) THEN Err("CountryCodeError")
    ELSE IF C10_SumFrom(C10_Stream(u), 1) % 10 # 0 THEN Err("ChecksumError")
    ELSE Ok(u)

\* C10: for every input string the validator's outcome is the reference
\* classification of the uppercased input: format error, else country-code
\* error, else checksum error, else success with the uppercased ISIN.
C10_ValidatorIsReference ==
    (pc = "validated" /\ value # None) => outcome = C10_Reference(value)

\* On the inputs written in ASCII the validator is the reference.
C10_ValidatorIsReferenceOnAscii ==
    (pc = "validated" /\ value # None /\ \A i \in DOMAIN value : value[i] < 128)
        => outcome = C10_Reference(value)

\* An ASCII input that passes every check, given in lower case.
C10_WitnessAscii ==
    /\ pc = "validated"
    /\ value = sIsin1
    /\ outcome = Ok(sISIN1)

\* A string with a character outside the ISIN alphabet is returned as a valid ISIN.
C10_AcceptsOutsideAlphabet ==
    /\ pc = "validated"
    /\ value # None
    /\ outcome.kind = "ok"
    /\ \E i \in DOMAIN value : value[i] >= 128

\* The validator ends with an error that is none of the three of the classification.
C10_UnclassifiedError ==
    /\ pc = "validated"
    /\ outcome.kind = "InvalidLiteral"

(***************************************************************************)
(* C11: an accepted ISIN that ends in one of the digits 0-9 is rejected    *)
(* with the checksum error once that last digit is replaced by any other   *)
(* of the digits 0-9.                                                      *)
(***************************************************************************)
C11_Digits == 48..57

C11_Flipped(v, d) == Substitute(v, Len(v), d)

\* C11: for every accepted ISIN whose last character is a digit, replacing
\* that digit by a different digit gives a string the validator rejects with
\* the checksum error.
C11_TrailingDigitFlipRejected ==
    (pc = "validated" /\ value # None /\ outcome.kind = "ok"
       /\ value[Len(value)] \in C11_Digits)
    => \A d \in C11_Digits \ {value[Len(value)]} :
           validate_isin(C11_Flipped(value, d)) = Err("ChecksumError")

\* "us0378331005" is accepted and "US0378331006" fails the checksum.
C11_Witness ==
    /\ pc = "validated"
    /\ value = sIsin1
    /\ outcome.kind = "ok"
    /\ C11_Flipped(upper(value), 54) = sBadIsin
    /\ validate_isin(sBadIsin) = Err("ChecksumError")

(***************************************************************************)
(* The currency validator on its own: a record is constructed with some    *)
(* currency string and pydantic runs Commodity.validate_currency on it.    *)
(***************************************************************************)
MaxCurrencyLen == 4

\* 'U' 'S' 'D' 'd' '1' ' ' and E acute
CurrencyAlphabet == {85, 83, 68, 100, 49, 32, 201}

CurrencyInputs == UNION {[1..n -> CurrencyAlphabet] : n \in 0..MaxCurrencyLen}

InitCurrency ==
    /\ value \in CurrencyInputs
    /\ outcome = NoOutcome
    /\ proc = NoProc
    /\ world = NoWorld
    /\ pc = "field"
    /\ commodities = <<>> /\ load_errors = <<>>
    /\ by_isin = <<>> /\ by_figi = <<>> /\ by_name = <<>> /\ by_ticker = <<>>
    /\ fs = <<>> /\ include_bundled = FALSE /\ extra_paths = <<>>
    /\ call = NoCall
    /\ matches = <<>>
    /\ found = NoCommodity

ValidateCurrency ==
    /\ pc = "field"
    /\ outcome' = validate_currency(value)
    /\ pc' = "validated"
    /\ UNCHANGED <<commodities, load_errors, by_isin, by_figi, by_name, by_ticker,
                   fs, include_bundled, extra_paths, call, matches, found, value, proc, world>>

NextCurrency == ValidateCurrency

SpecCurrency == InitCurrency /\ [][NextCurrency]_vars

\* C12: the currency validator accepts a string exactly when it is three
\* characters long and each of them is one of the letters A-Z; any other
\* string ("U1D" for one) is rejected.
C12_AcceptsExactlyUpperAsciiTriples ==
    pc = "validated"
    => (outcome.kind = "ok"
        <=> (Len(value) = 3 /\ \A i \in DOMAIN value : value[i] \in 65..90))

\* What the validator does reject: a length other than three, a lowercase
\* letter, a string without any uppercase letter.
C12_RejectsLengthAndLowercase ==
    pc = "validated"
    => (outcome.kind = "ok"
        <=> (/\ Len(value) = 3
             /\ \E i \in DOMAIN value : IsUpperChar(value[i])
             /\ \A i \in DOMAIN value : ~IsLowerChar(value[i])))

\* "U1D" is accepted.
C12_AcceptsU1D ==
    /\ pc = "validated"
    /\ value = <<85, 49, 68>>
    /\ outcome = Ok(value)

(***************************************************************************)
(* finder.py: the market-data providers.  A provider is installed or not   *)
(* (the import at the top of finder.py succeeded or not); what an installed*)
(* provider answers to one call is the reply of that call.                 *)
(***************************************************************************)
\* get_source(provider): the provider's data source, or "none" for None.
get_source(provider) ==
    IF provider = ProviderStr("yahoo")
    THEN (IF "yahoo" \in world.installed THEN "yahoo" ELSE "none")
    ELSE IF provider = ProviderStr("ft")
    THEN (IF "ft" \in world.installed THEN "ft" ELSE "none")
    ELSE "none"

\* What source.validate(ticker, date, price) does in one call.
ValidateReplies == {"true", "false", "raise"}

\* A variant that trusts a provider that raises.
verify_ticker_RaiseIsTrue(provider, reply) ==
    IF get_source(provider) = "none" THEN FALSE ELSE reply # "false"

\* verify_ticker(ticker, date, price, provider), given the reply of validate.
verify_ticker(provider, reply) ==
    IF get_source(provider) = "none" THEN FALSE
    ELSE IF reply = "raise" THEN FALSE
    ELSE reply = "true"

(***************************************************************************)
(* cli.py: resolve_cmd                                                     *)
(***************************************************************************)
sB    == <<66>>                       \* "B"
sq    == <<113>>                      \* "q"
sw    == <<119>>                      \* "w"
sIbkr == <<105, 98, 107, 114>>        \* "ibkr"
sDate == <<50, 48, 50, 52>>           \* a date

\* The providers the ticker fallback tries when none is requested.
FallbackProviders_AllListable == <<ProviderStr("yahoo"), ProviderStr("ft"), ProviderStr("google")>>
FallbackProviders == <<ProviderStr("yahoo"), sIbkr, ProviderStr("google")>>

\* args.price when --price is not given (None).
NoPrice == -1

\* Python truthiness of an optional float.
PriceTruthy(price) == price # NoPrice /\ price # 0

\* The records of the resolve runs: two names under one ISIN, tickers under
\* yahoo and ft, under ft only, under google only, and none at all.
ResolveRecords ==
    { [name |-> sAAPL, isin |-> sISIN1, figi |-> None, currency |-> sUSD, issuer |-> None,
       tickers |-> [present |-> TRUE, yahoo |-> sx, ft |-> sq, google |-> None]],
      [name |-> sB, isin |-> sISIN1, figi |-> None, currency |-> sEUR, issuer |-> None,
       tickers |-> [present |-> TRUE, yahoo |-> None, ft |-> sq, google |-> <<>>]],
      [name |-> sB, isin |-> None, figi |-> None, currency |-> sUSD, issuer |-> None,
       tickers |-> [present |-> TRUE, yahoo |-> None, ft |-> None, google |-> sw]],
      [name |-> sAAPL, isin |-> sISIN1, figi |-> None, currency |-> sUSD, issuer |-> None,
       tickers |-> NoTickers] }

ResolveSeqs ==
    UNION { { [i \in 1..n |-> Loaded(f[i], i)] : f \in [1..n -> ResolveRecords] } :
            n \in 0..MaxRecords }

ResolveTargets ==
    { [date |-> None, price |-> NoPrice], [date |-> sDate, price |-> 0],
      [date |-> sDate, price |-> 190], [date |-> None, price |-> 190] }

ResolveArgs ==
    { [token |-> tk, currency |-> cu, provider |-> pr, date |-> tg.date, price |-> tg.price] :
      tk \in {sAapl, sIsin1, sX, sq, sw},
      cu \in {None, sEUR},
      pr \in {None, ProviderStr("ft"), sIbkr},
      tg \in ResolveTargets }

InitResolve ==
    /\ commodities \in ResolveSeqs
    /\ load_errors = <<>>
    /\ by_isin = <<>> /\ by_figi = <<>> /\ by_name = <<>> /\ by_ticker = <<>>
    /\ fs = <<>> /\ include_bundled = FALSE /\ extra_paths = <<>>
    /\ pc = "loaded"
    /\ call = NoCall
    /\ matches = <<>>
    /\ found = NoCommodity
    /\ value = None
    /\ outcome = NoOutcome
    /\ proc = NoProc
    /\ world \in {[installed |-> s, cache |-> <<>>, dirs |-> {}] : s \in {{}, {"yahoo", "ft"}}}

\* reg.find_candidates(args.token, currency=args.currency)
ResolveFind(args) ==
    /\ pc = "ready"
    /\ LET cands == find_candidates(args.token, args.currency) IN
       /\ proc' = [cmd |-> "resolve", args |-> args, candidates |-> cands,
                    probes |-> <<>>, calls |-> <<>>, ci |-> 1, pi |-> 1,
                    resolved |-> NoCommodity, exit |-> -1]
       /\ pc' = IF cands = <<>> THEN "fallback" ELSE "select"
    /\ UNCHANGED <<commodities, load_errors, by_isin, by_figi, by_name, by_ticker,
                   fs, include_bundled, extra_paths, call, matches, found, value,
                   outcome, world>>

\* The ticker fallback, one find_by_ticker per step.
ResolveFallback ==
    /\ pc = "fallback"
    /\ LET P == IF Truthy(proc.args.provider) THEN <<proc.args.provider>>
                ELSE FallbackProviders
           c == find_by_ticker(P[proc.pi], proc.args.token)
           over == c # NoCommodity \/ proc.pi = Len(P)
       IN /\ proc' = [proc EXCEPT !.probes = Append(@, P[proc.pi]),
                                   !.candidates = IF c # NoCommodity THEN <<c>> ELSE @,
                                   !.pi = IF over THEN 1 ELSE @ + 1]
          /\ pc' = IF over THEN "select" ELSE "fallback"
    /\ UNCHANGED <<commodities, load_errors, by_isin, by_figi, by_name, by_ticker,
                   fs, include_bundled, extra_paths, call, matches, found, value,
                   outcome, world>>

\* No candidate: exit 1.  A target date and price: verify.  Otherwise the
\* first candidate is resolved.
ResolveSelect ==
    /\ pc = "select"
    /\ IF proc.candidates = <<>>
       THEN proc' = [proc EXCEPT !.exit = 1] /\ pc' = "exit"
       ELSE IF Truthy(proc.args.date) /\ PriceTruthy(proc.args.price)
       THEN proc' = proc /\ pc' = "verify"
       ELSE proc' = [proc EXCEPT !.resolved = proc.candidates[1], !.exit = 0] /\ pc' = "exit"
    /\ UNCHANGED <<commodities, load_errors, by_isin, by_figi, by_name, by_ticker,
                   fs, include_bundled, extra_paths, call, matches, found, value,
                   outcome, world>>

\* The verification loops, one (candidate, provider) position per step; the
\* call is verify_ticker(ticker, args.date, args.price), provider defaulted.
ResolveVerify(reply) ==
    /\ pc = "verify"
    /\ IF proc.ci > Len(proc.candidates)
       THEN proc' = [proc EXCEPT !.exit = 1] /\ pc' = "exit"
       ELSE LET cand == proc.candidates[proc.ci] IN
            IF proc.pi > Len(Providers) \/ ~cand.tickers.present
            THEN proc' = [proc EXCEPT !.ci = @ + 1, !.pi = 1] /\ pc' = "verify"
            ELSE LET ticker == cand.tickers[Providers[proc.pi]] IN
                 IF ~Truthy(ticker)
                 THEN proc' = [proc EXCEPT !.pi = @ + 1] /\ pc' = "verify"
                 ELSE LET ok == verify_ticker(ProviderStr("yahoo"), reply)
                          made == [candidate |-> proc.ci, listed |-> Providers[proc.pi],
                                   ticker |-> ticker, provider |-> ProviderStr("yahoo"),
                                   result |-> ok]
                      IN IF ok
                         THEN /\ proc' = [proc EXCEPT !.calls = Append(@, made),
                                                       !.resolved = cand, !.exit = 0]
                              /\ pc' = "exit"
                         ELSE /\ proc' = [proc EXCEPT !.calls = Append(@, made),
                                                       !.pi = @ + 1]
                              /\ pc' = "verify"
    /\ UNCHANGED <<commodities, load_errors, by_isin, by_figi, by_name, by_ticker,
                   fs, include_bundled, extra_paths, call, matches, found, value,
                   outcome, world>>

NextResolve ==
    \/ RebuildIndices
    \/ \E args \in ResolveArgs : ResolveFind(args)
    \/ ResolveFallback
    \/ ResolveSelect
    \/ \E reply \in ValidateReplies : ResolveVerify(reply)

SpecResolve == InitResolve /\ [][NextResolve]_vars

(***************************************************************************)
(* C13: the ticker fallback of resolve.                                    *)
(***************************************************************************)
Exited(cmd) == pc = "exit" /\ proc.cmd = cmd

C13_First == find_candidates(proc.args.token, proc.args.currency)
C13_Hit(provider) == find_by_ticker(provider, proc.args.token) # NoCommodity

\* The fallback over the providers of the sequence order: it runs only when
\* find_candidates is empty; a requested provider is the one probe;
\* otherwise the providers are probed in order up to the first hit, which
\* becomes the single candidate; with no candidate the exit code is 1.
C13_Fallback(order) ==
    /\ proc.probes # <<>> => C13_First = <<>>
    /\ C13_First # <<>> => proc.candidates = C13_First
    /\ C13_First = <<>> =>
        /\ proc.probes # <<>>
        /\ \A i \in 1..(Len(proc.probes) - 1) : ~C13_Hit(proc.probes[i])
        /\ IF Truthy(proc.args.provider)
           THEN proc.probes = <<proc.args.provider>>
           ELSE /\ Len(proc.probes) <= Len(order)
                /\ proc.probes = SubSeq(order, 1, Len(proc.probes))
                /\ C13_Hit(proc.probes[Len(proc.probes)]) \/ proc.probes = order
        /\ LET last == proc.probes[Len(proc.probes)] IN
           IF C13_Hit(last)
           THEN proc.candidates = <<find_by_ticker(last, proc.args.token)>>
           ELSE proc.candidates = <<>> /\ proc.exit = 1 /\ proc.resolved = NoCommodity

\* C13: the ticker fallback runs only when find_candidates is empty; with a
\* requested provider only that provider is probed; otherwise every provider
\* under which a record can list a ticker (yahoo, ft, google) is probed in a
\* fixed order up to the first hit, which becomes the single candidate; with
\* no candidate left the workflow exits with code 1.
C13_FallbackProbesListable ==
    Exited("resolve") => C13_Fallback(FallbackProviders_AllListable)

\* What the fallback does: the order is yahoo, ibkr, google.
C13_FallbackAsCoded ==
    Exited("resolve") => C13_Fallback(FallbackProviders)

\* A token that a record lists under ft is not resolved: ft was not probed.
C13_FtTickerNotResolved ==
    /\ Exited("resolve")
    /\ proc.exit = 1
    /\ ~Truthy(proc.args.provider)
    /\ C13_Hit(ProviderStr("ft"))
    /\ ProviderStr("ft") \notin Range(proc.probes)

(***************************************************************************)
(* C14: the selection step of resolve.                                     *)
(***************************************************************************)
\* The tickers of candidate ci in provider order, and those of all the
\* candidates in resolver order.
C14_Listed(ci) ==
    LET cand == proc.candidates[ci]
        ps == SelectSeq(Providers, LAMBDA p : cand.tickers.present /\ Truthy(cand.tickers[p]))
    IN [k \in 1..Len(ps) |-> [candidate |-> ci, listed |-> ps[k], ticker |-> cand.tickers[ps[k]]]]

C14_Expected == Flatten([ci \in 1..Len(proc.candidates) |-> C14_Listed(ci)])

C14_Made ==
    [k \in 1..Len(proc.calls) |->
        [candidate |-> proc.calls[k].candidate, listed |-> proc.calls[k].listed,
         ticker |-> proc.calls[k].ticker]]

\* With a target the validations are made in order up to the first that
\* succeeds, whose candidate is resolved; when none succeeds the exit code
\* is 1 and nothing is resolved.  Without a target the first candidate is
\* resolved and no validation is made.
C14_Selection(target) ==
    proc.candidates # <<>> =>
        IF target
        THEN /\ Len(proc.calls) <= Len(C14_Expected)
             /\ C14_Made = SubSeq(C14_Expected, 1, Len(proc.calls))
             /\ \A k \in 1..(Len(proc.calls) - 1) : ~proc.calls[k].result
             /\ IF proc.calls # <<>> /\ proc.calls[Len(proc.calls)].result
                THEN /\ proc.resolved = proc.candidates[proc.calls[Len(proc.calls)].candidate]
                     /\ proc.exit = 0
                ELSE /\ Len(proc.calls) = Len(C14_Expected)
                     /\ proc.resolved = NoCommodity
                     /\ proc.exit = 1
        ELSE /\ proc.calls = <<>>
             /\ proc.resolved = proc.candidates[1]
             /\ proc.exit = 0

\* C14: when the caller supplies a target date and price, candidates are
\* tried in resolver order and their tickers in provider order; the first
\* ticker whose validation succeeds selects its candidate and ends the
\* validations; if none validates the exit code is 1 and no candidate is
\* resolved.  Without a target the first candidate is resolved.
C14_VerifiesSuppliedTarget ==
    Exited("resolve")
    => C14_Selection(proc.args.date # None /\ proc.args.price # NoPrice)

\* The same for the targets the code takes as given: a non-empty date and a
\* price other than zero.
C14_VerifiesTruthyTarget ==
    Exited("resolve")
    => C14_Selection(Truthy(proc.args.date) /\ PriceTruthy(proc.args.price))

\* A target price of 0: the first candidate is resolved without validation.
C14_ZeroPriceUnverified ==
    /\ Exited("resolve")
    /\ proc.args.date # None /\ proc.args.price = 0
    /\ C14_Expected # <<>>
    /\ proc.calls = <<>>
    /\ proc.exit = 0
    /\ proc.resolved = proc.candidates[1]

\* The second candidate is resolved after the first one's tickers failed.
C14_SecondCandidateVerified ==
    /\ Exited("resolve")
    /\ Len(proc.candidates) = 2
    /\ Len(proc.calls) >= 2
    /\ proc.resolved = proc.candidates[2]

(***************************************************************************)
(* finder.py: verify_ticker, fetch_metadata and search_isin.  The last two *)
(* are memoized in the on-disk cache, which outlives the process; the set  *)
(* of installed providers is fixed when a process imports finder.py.       *)
(***************************************************************************)
ProviderIds == {"yahoo", "ft"}

\* What source.resolve(criteria) does in one call.
ResolveReplies == {"symbol", "absent", "raise"}

\* The Symbol a provider resolves to.
Symbol(p) == [provider |-> ProviderStr(p), ticker |-> sX, name |-> sAAPL, currency |-> sUSD]

\* get_available_providers()
get_available_providers == SelectSeq(<<"yahoo", "ft">>, LAMBDA p : p \in world.installed)

\* What a call consumed of the providers' replies: nothing of a provider it
\* did not call.
Uncalled == [p \in ProviderIds |-> "uncalled"]
Consumed(provider, reply) ==
    [p \in ProviderIds |-> IF get_source(provider) = p THEN reply ELSE "uncalled"]

\* The body of fetch_metadata.
fetch_metadata_body(ticker, provider, reply) ==
    IF get_source(provider) = "none" THEN <<>>
    ELSE IF reply = "raise" THEN <<>>
    ELSE IF reply = "absent" THEN <<>>
    ELSE << [Symbol(get_source(provider)) EXCEPT !.provider = None] >>

\* A variant of the loop of search_isin that gives up at the first provider
\* that raises.
search_isin_body_StopAtRaise(replies) ==
    LET ps == get_available_providers
        stop == {i \in DOMAIN ps : replies[ps[i]] = "raise"}
        kept == SelectSeq(ps, LAMBDA p : replies[p] = "symbol"
                                         /\ \A i \in stop : \E j \in 1..(i - 1) : ps[j] = p)
    IN [k \in DOMAIN kept |-> Symbol(kept[k])]

\* The body of search_isin.
search_isin_body(replies) ==
    LET kept == SelectSeq(get_available_providers, LAMBDA p : replies[p] = "symbol")
    IN [k \in DOMAIN kept |-> Symbol(kept[k])]

CacheKey(fn, arg, provider) == [fn |-> fn, arg |-> arg, provider |-> provider]

\* fetch_metadata under @cache.memoize: a stored result is returned without
\* running the body; a computed result is stored.
fetch_metadata(ticker, provider, reply) ==
    LET key == CacheKey("fetch_metadata", ticker, provider) IN
    IF key \in DOMAIN world.cache
    THEN [result |-> world.cache[key], hit |-> TRUE, consumed |-> Uncalled,
          cache |-> world.cache]
    ELSE LET result == fetch_metadata_body(ticker, provider, reply) IN
         [result |-> result, hit |-> FALSE, consumed |-> Consumed(provider, reply),
          cache |-> DictSet(world.cache, key, result)]

\* search_isin under @cache.memoize.
search_isin(isin, replies) ==
    LET key == CacheKey("search_isin", isin, None) IN
    IF key \in DOMAIN world.cache
    THEN [result |-> world.cache[key], hit |-> TRUE, consumed |-> Uncalled,
          cache |-> world.cache]
    ELSE LET result == search_isin_body(replies) IN
         [result |-> result, hit |-> FALSE,
          consumed |-> [p \in ProviderIds |->
                           IF p \in world.installed THEN replies[p] ELSE "uncalled"],
          cache |-> DictSet(world.cache, key, result)]

FinderTickers   == {sx}
FinderProviders == {ProviderStr("yahoo"), ProviderStr("ft"), sIbkr}
FinderIsins     == {sISIN1}

InitFinder ==
    /\ world \in {[installed |-> s, cache |-> <<>>, dirs |-> {}] : s \in SUBSET ProviderIds}
    /\ proc = NoProc
    /\ pc = "idle"
    /\ commodities = <<>> /\ load_errors = <<>>
    /\ by_isin = <<>> /\ by_figi = <<>> /\ by_name = <<>> /\ by_ticker = <<>>
    /\ fs = <<>> /\ include_bundled = FALSE /\ extra_paths = <<>>
    /\ call = NoCall
    /\ matches = <<>>
    /\ found = NoCommodity
    /\ value = None
    /\ outcome = NoOutcome

VerifyTicker(ticker, provider, reply) ==
    /\ pc = "idle"
    /\ proc' = [cmd |-> "verify_ticker", arg |-> ticker, provider |-> provider,
                 hit |-> FALSE, consumed |-> Consumed(provider, reply), raised |-> FALSE,
                 result |-> verify_ticker(provider, reply)]
    /\ pc' = "returned"
    /\ UNCHANGED <<commodities, load_errors, by_isin, by_figi, by_name, by_ticker,
                   fs, include_bundled, extra_paths, call, matches, found, value,
                   outcome, world>>

FetchMetadata(ticker, provider, reply) ==
    /\ pc = "idle"
    /\ LET r == fetch_metadata(ticker, provider, reply) IN
       /\ proc' = [cmd |-> "fetch_metadata", arg |-> ticker, provider |-> provider,
                    hit |-> r.hit, consumed |-> r.consumed, raised |-> FALSE,
                    result |-> r.result]
       /\ world' = [world EXCEPT !.cache = r.cache]
    /\ pc' = "returned"
    /\ UNCHANGED <<commodities, load_errors, by_isin, by_figi, by_name, by_ticker,
                   fs, include_bundled, extra_paths, call, matches, found, value,
                   outcome>>

SearchIsin(isin, replies) ==
    /\ pc = "idle"
    /\ LET r == search_isin(isin, replies) IN
       /\ proc' = [cmd |-> "search_isin", arg |-> isin, provider |-> None,
                    hit |-> r.hit, consumed |-> r.consumed, raised |-> FALSE,
                    result |-> r.result]
       /\ world' = [world EXCEPT !.cache = r.cache]
    /\ pc' = "returned"
    /\ UNCHANGED <<commodities, load_errors, by_isin, by_figi, by_name, by_ticker,
                   fs, include_bundled, extra_paths, call, matches, found, value,
                   outcome>>

FinderReturn ==
    /\ pc = "returned"
    /\ proc' = NoProc
    /\ pc' = "idle"
    /\ UNCHANGED <<commodities, load_errors, by_isin, by_figi, by_name, by_ticker,
                   fs, include_bundled, extra_paths, call, matches, found, value,
                   outcome, world>>

\* A cache entry is older than its 24 hours.
Expire(key) ==
    /\ pc = "idle"
    /\ key \in DOMAIN world.cache
    /\ world' = [world EXCEPT !.cache = [k \in DOMAIN @ \ {key} |-> @[k]]]
    /\ UNCHANGED <<commodities, load_errors, by_isin, by_figi, by_name, by_ticker,
                   fs, include_bundled, extra_paths, pc, call, matches, found, value,
                   outcome, proc>>

\* The next process imports finder.py with other providers installed; the
\* cache directory is the same.
Restart(installed) ==
    /\ pc = "idle"
    /\ installed # world.installed
    /\ world' = [world EXCEPT !.installed = installed]
    /\ UNCHANGED <<commodities, load_errors, by_isin, by_figi, by_name, by_ticker,
                   fs, include_bundled, extra_paths, pc, call, matches, found, value,
                   outcome, proc>>

NextFinder ==
    \/ \E ticker \in FinderTickers, provider \in FinderProviders, reply \in ValidateReplies :
           VerifyTicker(ticker, provider, reply)
    \/ \E ticker \in FinderTickers, provider \in FinderProviders, reply \in ResolveReplies :
           FetchMetadata(ticker, provider, reply)
    \/ \E isin \in FinderIsins, replies \in [ProviderIds -> ResolveReplies] :
           SearchIsin(isin, replies)
    \/ FinderReturn
    \/ \E key \in DOMAIN world.cache : Expire(key)
    \/ \E installed \in SUBSET ProviderIds : Restart(installed)

SpecFinder == InitFinder /\ [][NextFinder]_vars

(***************************************************************************)
(* C15: provider failures degrade and do not propagate.                    *)
(***************************************************************************)
FinderReturned(cmd) == pc = "returned" /\ proc.cmd = cmd

C15_VerifyDegrades ==
    FinderReturned("verify_ticker") =>
        /\ ~proc.raised
        /\ proc.result => \E p \in ProviderIds :
                              ProviderStr(p) = proc.provider /\ proc.consumed[p] = "true"
        /\ (get_source(proc.provider) = "none"
            \/ \E p \in ProviderIds : proc.consumed[p] = "raise") => ~proc.result

C15_SearchDegrades ==
    FinderReturned("search_isin") =>
        /\ ~proc.raised
        /\ \A p \in ProviderIds :
              /\ proc.consumed[p] \in {"raise", "absent"}
                    => \A k \in DOMAIN proc.result : proc.result[k].provider # ProviderStr(p)
              /\ proc.consumed[p] = "symbol"
                    => \E k \in DOMAIN proc.result : proc.result[k] = Symbol(p)

\* fetch_metadata returns the empty mapping when the provider is
\* unavailable, resolve returns absent or resolve raises; fromBody restricts
\* the statement to the calls that ran the body.
C15_FetchDegrades(fromBody) ==
    FinderReturned("fetch_metadata") =>
        /\ ~proc.raised
        /\ (fromBody => ~proc.hit)
            => ((get_source(proc.provider) = "none"
                 \/ \E p \in ProviderIds : proc.consumed[p] \in {"raise", "absent"})
                => proc.result = <<>>)

C15_WitnessSearch ==
    /\ FinderReturned("search_isin")
    /\ ~proc.hit
    /\ proc.consumed = [p \in ProviderIds |-> IF p = "yahoo" THEN "raise" ELSE "symbol"]
    /\ proc.result = <<Symbol("ft")>>

\* fetch_metadata answers from the cache although the provider is not installed.
C15_MemoizedWhileUnavailable ==
    /\ FinderReturned("fetch_metadata")
    /\ proc.hit
    /\ get_source(proc.provider) = "none"
    /\ proc.result # <<>>

(***************************************************************************)
(* cli.py: lint_cmd.  The records carry their validation points; the run   *)
(* starts from a constructed registry.                                     *)
(***************************************************************************)
\* The records of the lint runs: a record with tickers and a validation
\* point, an override of it (same ISIN, same name), another name under the
\* same ISIN whose currency the provider contradicts, a record without
\* tickers or ISIN, and a record listed under google only.
LintRecords ==
    { [name |-> sAAPL, isin |-> sISIN1, figi |-> None, currency |-> sUSD, issuer |-> None,
       tickers |-> [present |-> TRUE, yahoo |-> sx, ft |-> sq, google |-> None],
       validation_points |-> << [date |-> sDate, price |-> 190] >>],
      [name |-> sAAPL, isin |-> sISIN1, figi |-> None, currency |-> sUSD, issuer |-> None,
       tickers |-> NoTickers, validation_points |-> <<>>],
      [name |-> sB, isin |-> sISIN1, figi |-> None, currency |-> sEUR, issuer |-> None,
       tickers |-> [present |-> TRUE, yahoo |-> None, ft |-> sq, google |-> <<>>],
       validation_points |-> << [date |-> sDate, price |-> 190] >>],
      [name |-> sB, isin |-> None, figi |-> None, currency |-> sUSD, issuer |-> None,
       tickers |-> [present |-> TRUE, yahoo |-> None, ft |-> None, google |-> None],
       validation_points |-> <<>>],
      [name |-> sB, isin |-> sISIN2, figi |-> None, currency |-> sUSD, issuer |-> None,
       tickers |-> [present |-> TRUE, yahoo |-> <<>>, ft |-> None, google |-> sw],
       validation_points |-> << [date |-> sDate, price |-> 190] >>] }

LintLoaded(r, i) ==
    [id |-> i, name |-> r.name, isin |-> r.isin, figi |-> r.figi,
     currency |-> r.currency, issuer |-> r.issuer, tickers |-> r.tickers,
     validation_points |-> r.validation_points]

LintSeqs ==
    UNION { { [i \in 1..n |-> LintLoaded(f[i], i)] : f \in [1..n -> LintRecords] } :
            n \in 0..MaxRecords }

\* The load errors of the registry under lint: none, or that of one file.
LintLoadErrors == { <<>>, << ErrorMessage(<<nFtxt>>, "ScannerError") >> }

LintArgs ==
    { [verify |-> v, only |-> o] : v \in BOOLEAN, o \in {None, sAAPL, sZZ} }

\* An entry of errors: a load error of the registry, or
\* f"Duplicate ISIN {c.isin} in {c.name} and {seen_isins[c.isin]}".
LoadError(msg) ==
    [kind |-> "load", load |-> msg, isin |-> None, name |-> None, seen |-> None]
DuplicateIsin(isin, name, seen) ==
    [kind |-> "duplicate", load |-> ErrorMessage(<<>>, "none"), isin |-> isin,
     name |-> name, seen |-> seen]

\* Check 1, "Unique ISINs": the errors appended over the records from the
\* i-th on, given the ISINs seen before.
RECURSIVE UniqueIsins(_, _, _)
UniqueIsins(cs, i, seen_isins) ==
    IF i > Len(cs) THEN <<>>
    ELSE LET c == cs[i] IN
         IF ~Truthy(c.isin) THEN UniqueIsins(cs, i + 1, seen_isins)
         ELSE (IF c.isin \in DOMAIN seen_isins
               THEN << DuplicateIsin(c.isin, c.name, seen_isins[c.isin]) >>
               ELSE <<>>)
              \o UniqueIsins(cs, i + 1, DictSet(seen_isins, c.isin, c.name))

\* The ticker and provider the audit of c uses: yahoo, else ft, else google.
AuditProvider(c) ==
    IF ~c.tickers.present THEN "none"
    ELSE IF Truthy(c.tickers.yahoo) THEN "yahoo"
    ELSE IF Truthy(c.tickers.ft) THEN "ft"
    ELSE IF Truthy(c.tickers.google) THEN "google"
    ELSE "none"

\* providers_to_check
providers_to_check(c) ==
    SelectSeq(Providers, LAMBDA p : c.tickers.present /\ Truthy(c.tickers[p]))

\* An entry of warnings.
Warning(name, kind, date) == [name |-> name, kind |-> kind, date |-> date]

\* The warnings of the validation points of c from the k-th on; replies[k][p]
\* is what provider p's validate does for the k-th point.
RECURSIVE PointWarnings(_, _, _)
PointWarnings(c, k, replies) ==
    IF k > Len(c.validation_points) THEN <<>>
    ELSE LET vp == c.validation_points[k]
             ps == providers_to_check(c)
             verified == {i \in DOMAIN ps : verify_ticker(ProviderStr(ps[i]), replies[k][ps[i]])}
         IN (IF ps # <<>> /\ verified = {}
             THEN << Warning(c.name, "Price verification failed on ", vp.date) >>
             ELSE <<>>)
            \o PointWarnings(c, k + 1, replies)

\* The warnings of the audit of c, given the external metadata.
AuditWarnings(c, ext_data, replies) ==
    IF ext_data = <<>>
    THEN << Warning(c.name, "No external metadata found", None) >>
    ELSE LET ext_curr == ext_data[1].currency IN
         (IF Truthy(ext_curr) /\ upper(ext_curr) = upper(c.currency)
          THEN <<>>
          ELSE << Warning(c.name, "Currency mismatch", None) >>)
         \o PointWarnings(c, 1, replies)

InitLint ==
    /\ commodities \in LintSeqs
    /\ load_errors \in LintLoadErrors
    /\ by_isin = <<>> /\ by_figi = <<>> /\ by_name = <<>> /\ by_ticker = <<>>
    /\ fs = <<>> /\ include_bundled = FALSE /\ extra_paths = <<>>
    /\ pc = "loaded"
    /\ call = NoCall
    /\ matches = <<>>
    /\ found = NoCommodity
    /\ value = None
    /\ outcome = NoOutcome
    /\ proc = NoProc
    /\ world \in {[installed |-> s, cache |-> <<>>, dirs |-> {}] : s \in {{}, {"yahoo", "ft"}}}

\* lint_cmd up to the audit: errors is the copy of the load errors followed
\* by the duplicates; with --verify the targets are chosen, and an --only
\* that names no record exits with code 1.
LintStart(args) ==
    /\ pc = "ready"
    /\ LET errors == [i \in DOMAIN load_errors |-> LoadError(load_errors[i])]
                     \o UniqueIsins(commodities, 1, <<>>)
           all == [i \in DOMAIN commodities |-> i]
           targets == IF ~args.verify THEN <<>>
                      ELSE IF Truthy(args.only)
                      THEN SelectSeq(all, LAMBDA i : commodities[i].name = args.only)
                      ELSE all
           missing == args.verify /\ Truthy(args.only) /\ targets = <<>>
       IN /\ proc' = [cmd |-> "lint", args |-> args, errors |-> errors, warnings |-> <<>>,
                       targets |-> targets, ti |-> 1, not_found |-> missing,
                       printed_errors |-> <<>>, printed_warnings |-> <<>>,
                       passed |-> FALSE, exit |-> IF missing THEN 1 ELSE -1]
          /\ pc' = IF missing THEN "exit" ELSE IF args.verify THEN "audit" ELSE "finish"
    /\ UNCHANGED <<commodities, load_errors, by_isin, by_figi, by_name, by_ticker,
                   fs, include_bundled, extra_paths, call, matches, found, value,
                   outcome, world>>

\* The validation points of the target under audit.
AuditPoints ==
    IF pc = "audit" /\ proc.ti <= Len(proc.targets)
    THEN DOMAIN commodities[proc.targets[proc.ti]].validation_points
    ELSE {}

\* The audit of one target: reply is what the provider's resolve does,
\* replies what validate does for each point and provider.
LintAudit(reply, replies) ==
    /\ pc = "audit"
    /\ IF proc.ti > Len(proc.targets)
       THEN proc' = proc /\ pc' = "finish" /\ world' = world
       ELSE LET c == commodities[proc.targets[proc.ti]]
                provider == AuditProvider(c)
            IN IF provider = "none"
               THEN /\ proc' = [proc EXCEPT !.ti = @ + 1]
                    /\ pc' = "audit" /\ world' = world
               ELSE LET r == fetch_metadata(c.tickers[provider], ProviderStr(provider), reply)
                    IN /\ proc' = [proc EXCEPT !.ti = @ + 1,
                                     !.warnings = @ \o AuditWarnings(c, r.result, replies)]
                       /\ world' = [world EXCEPT !.cache = r.cache]
                       /\ pc' = "audit"
    /\ UNCHANGED <<commodities, load_errors, by_isin, by_figi, by_name, by_ticker,
                   fs, include_bundled, extra_paths, call, matches, found, value,
                   outcome>>

\* The end of lint_cmd: with errors, each is printed and the exit code is 1;
\* otherwise the warnings are printed, then "All checks passed.".
LintFinish ==
    /\ pc = "finish"
    /\ IF proc.errors # <<>>
       THEN proc' = [proc EXCEPT !.printed_errors = proc.errors, !.exit = 1]
       ELSE proc' = [proc EXCEPT !.printed_warnings = proc.warnings,
                                 !.passed = TRUE, !.exit = 0]
    /\ pc' = "exit"
    /\ UNCHANGED <<commodities, load_errors, by_isin, by_figi, by_name, by_ticker,
                   fs, include_bundled, extra_paths, call, matches, found, value,
                   outcome, world>>

NextLint ==
    \/ RebuildIndices
    \/ \E args \in LintArgs : LintStart(args)
    \/ \E reply \in ResolveReplies,
          replies \in [AuditPoints -> [{"yahoo", "ft", "google"} -> ValidateReplies]] :
           LintAudit(reply, replies)
    \/ LintFinish

SpecLint == InitLint /\ [][NextLint]_vars

(***************************************************************************)
(* C16: the exit code and the report of lint.                              *)
(***************************************************************************)
\* The errors lint accumulated, as the scan of the registry gives them.
C16_Accumulated ==
    [i \in DOMAIN load_errors |-> LoadError(load_errors[i])]
    \o UniqueIsins(commodities, 1, <<>>)

\* An error counts as printed when the run printed its ERROR line; a load
\* error was also printed by the loader when the file failed.
C16_Printed(e) == e \in Range(proc.printed_errors) \/ e.kind = "load"

\* C16: a lint run over a registry with at least one load error exits with
\* a non-zero code after printing every accumulated error; a run whose only
\* findings are warnings exits with code 0.
C16_ErrorsPrintedThenNonZero ==
    Exited("lint") =>
        /\ load_errors # <<>> =>
              /\ proc.exit # 0
              /\ \A i \in DOMAIN C16_Accumulated : C16_Printed(C16_Accumulated[i])
        /\ C16_Accumulated = <<>> /\ ~proc.not_found => proc.exit = 0

\* What the run does: the exit code is non-zero exactly when there is an
\* error or --only names no record; the errors are printed unless --only
\* names no record.
C16_ExitAsCoded ==
    Exited("lint") =>
        /\ proc.exit = (IF proc.not_found \/ C16_Accumulated # <<>> THEN 1 ELSE 0)
        /\ proc.printed_errors = (IF proc.not_found THEN <<>> ELSE C16_Accumulated)

\* A run over a registry with a load error that exits with a duplicate-ISIN
\* error accumulated and never printed.
C16_ExitBeforeReport ==
    /\ Exited("lint")
    /\ load_errors # <<>>
    /\ proc.not_found
    /\ proc.exit = 1
    /\ \E i \in DOMAIN proc.errors : proc.errors[i].kind = "duplicate"
    /\ proc.printed_errors = <<>>

\* A run with warnings and no error exits with code 0.
C16_WarningsOnly ==
    /\ Exited("lint")
    /\ proc.warnings # <<>>
    /\ proc.errors = <<>>
    /\ proc.exit = 0
    /\ proc.printed_warnings = proc.warnings

(***************************************************************************)
(* C17: the duplicate-ISIN scan of lint.                                   *)
(***************************************************************************)
\* The ISINs the run reported as duplicates.
C17_Reported ==
    {proc.errors[i].isin : i \in {j \in DOMAIN proc.errors : proc.errors[j].kind = "duplicate"}}

\* The names the loaded records carry under an ISIN.
C17_NamesUnder(isin) ==
    {commodities[i].name : i \in {j \in DOMAIN commodities : commodities[j].isin = isin}}

C17_Isins ==
    {commodities[i].isin : i \in {j \in DOMAIN commodities : Truthy(commodities[j].isin)}}

\* C17: lint reports a duplicate-ISIN error for an ISIN if and only if the
\* loaded records carry that ISIN under two different names; records that
\* share both ISIN and name produce no duplicate-ISIN error.
C17_ReportedIffTwoNames ==
    Exited("lint") =>
        \A isin \in C17_Isins :
            isin \in C17_Reported <=> Cardinality(C17_NamesUnder(isin)) >= 2

\* What the scan does: an ISIN is reported when two records carry it.
C17_ReportedIffTwoRecords ==
    Exited("lint") =>
        \A isin \in C17_Isins :
            isin \in C17_Reported
            <=> Cardinality({j \in DOMAIN commodities : commodities[j].isin = isin}) >= 2

\* Two records with one ISIN and one name, reported as duplicates.
C17_OverrideReported ==
    /\ Exited("lint")
    /\ \E isin \in C17_Reported : Cardinality(C17_NamesUnder(isin)) = 1

(***************************************************************************)
(* registry.py: add_commodity and _save_commodity_to_file.  A state st of  *)
(* the process holds the file system, the directories made since the       *)
(* start, the records of the live registry and the exception that left the *)
(* call, if one did.                                                       *)
(***************************************************************************)
nManual == <<109, 97, 110, 117, 97, 108, 46, 121, 97, 109, 108>>   \* "manual.yaml"
nW      == <<119>>                                                   \* "w"
sBX     == <<98, 58, 120>>                                           \* "b:x"

MaxEntries == 2

\* The entries a target file holds before the save.
AddRaws ==
    { [keys |-> FieldKeys, name |-> sAAPL, isin |-> sISIN1, figi |-> None,
       currency |-> sUSD, issuer |-> None, tickers |-> NoTickers],
      [keys |-> FieldKeys, name |-> sAAPL, isin |-> sISIN2, figi |-> None,
       currency |-> sUSD, issuer |-> None, tickers |-> NoTickers],
      [keys |-> FieldKeys, name |-> sB, isin |-> sISIN1, figi |-> None,
       currency |-> sEUR, issuer |-> None, tickers |-> NoTickers] }

\* The lists of entries of a file: no entry is written twice.
EntrySeqs ==
    UNION { {es \in [1..n -> AddRaws] : \A i, j \in 1..n : es[i] = es[j] => i = j} :
            n \in 0..MaxEntries }

\* A document of two entries, the second of which writes its name twice,
\* and a mapping that has no key commodities.
TwiceDoc ==
    LET r == CHOOSE x \in AddRaws : x.name = sAAPL /\ x.isin = sISIN2 IN
    [kind |-> "mapping", keys |-> <<"commodities">>,
     commodities |-> << r, [r EXCEPT !.name = sB, !.keys = <<"name">> \o FieldKeys] >>]
OtherDoc == [kind |-> "mapping", keys |-> <<"version">>, commodities |-> <<>>]

\* The documents of a target file: a mapping with the key commodities, a
\* bare list of one entry, an empty document, a text that does not parse,
\* a document with a duplicate key, a mapping without the key commodities.
AddDocs ==
    { [kind |-> "mapping", keys |-> <<"commodities">>, commodities |-> es] : es \in EntrySeqs }
    \cup { [kind |-> "list", keys |-> <<>>, commodities |-> <<r>>] : r \in AddRaws }
    \cup { NullDoc, [kind |-> "unreadable", keys |-> <<>>, commodities |-> <<>>],
           TwiceDoc, OtherDoc }

AddTargets == { <<nR>>, <<nR, nSyaml>>, <<nW>>, <<nW, nSyaml>> }

\* No file, or one file where a target of the directory r points.
AddFileSystems ==
    { <<>> } \cup { [q \in {path} |-> doc] : path \in {<<nR, nManual>>, <<nR, nSyaml>>},
                                               doc \in AddDocs }

\* The currency of the criteria and the metadata found online, if any.
AddSources ==
    { [currency |-> sUSD, metadata |-> <<>>],
      [currency |-> None, metadata |-> << Symbol("yahoo") >>] }

AddArgs ==
    { [symbol |-> sy, isin |-> i, currency |-> src.currency, metadata |-> src.metadata,
       target_path |-> t, dry_run |-> d] :
      sy \in {sAapl, sBX, <<>>}, i \in {None, sIsin1, sBadIsin},
      src \in AddSources, t \in AddTargets, d \in BOOLEAN }

\* criteria.symbol.split(":")[0]
base_ticker(symbol) ==
    LET colons == {i \in DOMAIN symbol : symbol[i] = 58} IN
    IF colons = {} THEN symbol
    ELSE SubSeq(symbol, 1, (CHOOSE i \in colons : \A j \in colons : i <= j) - 1)

\* re.sub(r"\.+", ".", s): a run of dots becomes one dot.
RECURSIVE CollapseDots(_)
CollapseDots(s) ==
    IF Len(s) < 2 THEN s
    ELSE IF s[1] = 46 /\ s[2] = 46 THEN CollapseDots(Tail(s))
    ELSE <<s[1]>> \o CollapseDots(Tail(s))

\* str.strip(".")
RECURSIVE StripDots(_)
StripDots(s) ==
    IF s = <<>> THEN s
    ELSE IF s[1] = 46 THEN StripDots(Tail(s))
    ELSE IF s[Len(s)] = 46 THEN StripDots(SubSeq(s, 1, Len(s) - 1))
    ELSE s

\* The name add_commodity derives from the symbol.
clean_name(symbol) ==
    LET up == upper(base_ticker(symbol))
        subbed == [i \in DOMAIN up |-> IF NameChar(up[i]) THEN up[i] ELSE 46]
        stripped == StripDots(CollapseDots(subbed))
    IN IF stripped # <<>> /\ stripped[1] \in 65..90 THEN stripped
       ELSE <<88, 46>> \o stripped

\* tickers_dict: the ticker found online under its provider.
AddTickers(metadata) ==
    IF metadata # <<>> /\ Truthy(metadata[1].ticker)
    THEN [NoTickers EXCEPT !.present = TRUE,
                           !.yahoo = IF metadata[1].provider = ProviderStr("yahoo")
                                     THEN metadata[1].ticker ELSE None,
                           !.ft = IF metadata[1].provider = ProviderStr("ft")
                                  THEN metadata[1].ticker ELSE None,
                           !.google = IF metadata[1].provider = ProviderStr("google")
                                      THEN metadata[1].ticker ELSE None]
    ELSE NoTickers

\* commodity.model_dump(mode="json", exclude_none=True): the entry written.
model_dump(commodity) ==
    [keys |-> IF commodity.isin = None
              THEN <<"name", "instrument_type", "asset_class", "currency">>
              ELSE FieldKeys,
     name |-> commodity.name, isin |-> commodity.isin, figi |-> None,
     currency |-> commodity.currency, issuer |-> None, tickers |-> commodity.tickers]

\* The prefixes of a path, itself included.
Ancestors(path) == {SubSeq(path, 1, n) : n \in 1..Len(path)}

\* Path.mkdir(parents=True, exist_ok=True)
mkdir(st, path) ==
    IF \E q \in Ancestors(path) : q \in DOMAIN st.fs
    THEN [st EXCEPT !.raised = "FileExistsError"]
    ELSE [st EXCEPT !.dirs = @ \cup (Ancestors(path) \ Dirs)]

\* existing_commodities, as _save_commodity_to_file reads it from the file.
existing_commodities(st, path) ==
    IF path \notin DOMAIN st.fs THEN <<>>
    ELSE LET loaded == yaml_load(st.fs[path]) IN
         IF loaded.kind # "ok" THEN <<>>
         ELSE IF loaded.data.kind = "list" THEN loaded.data.commodities
         ELSE IF loaded.data.kind = "mapping"
                 /\ \E i \in DOMAIN loaded.data.keys : loaded.data.keys[i] = "commodities"
         THEN loaded.data.commodities
         ELSE <<>>

\* The entry the save replaces: the first, in file order, whose ISIN is the
\* record's (when the record has one) or else whose name is the record's;
\* 0 when there is none.
MatchIndex(existing, commodity) ==
    LET match(i) == IF Truthy(commodity.isin) /\ existing[i].isin = commodity.isin
                    THEN TRUE
                    ELSE existing[i].name = commodity.name
        hits == {i \in DOMAIN existing : match(i)}
    IN IF hits = {} THEN 0 ELSE CHOOSE i \in hits : \A j \in hits : i <= j

\* _save_to_yaml: the document written.
_save_to_yaml(st, path, entries) ==
    LET data == IF path \in DOMAIN st.fs /\ yaml_load(st.fs[path]).kind = "ok"
                THEN st.fs[path] ELSE NullDoc
        keys == IF data.kind = "mapping"
                   /\ \E i \in DOMAIN data.keys : data.keys[i] = "commodities"
                THEN data.keys ELSE <<"commodities">>
    IN [st EXCEPT !.fs = DictSet(@, path, [kind |-> "mapping", keys |-> keys,
                                            commodities |-> entries])]

\* A variant that prepares the target directory before it looks at dry_run.
_save_commodity_to_file_MkdirFirst(st, commodity, target_path, dry_run) ==
    LET as_dir == suffix(target_path) = <<>> \/ target_path \in Dirs \cup st.dirs
        made == mkdir(st, IF as_dir THEN target_path
                          ELSE SubSeq(target_path, 1, Len(target_path) - 1))
        path == IF as_dir THEN target_path \o <<nManual>> ELSE target_path
    IN IF made.raised # "none" \/ dry_run THEN made
       ELSE LET existing == existing_commodities(made, path)
                i == MatchIndex(existing, commodity)
            IN _save_to_yaml(made, path,
                             IF i = 0 THEN Append(existing, model_dump(commodity))
                             ELSE [existing EXCEPT ![i] = model_dump(commodity)])

\* _save_commodity_to_file
_save_commodity_to_file(st, commodity, target_path, dry_run) ==
    IF dry_run THEN st
    ELSE LET as_dir == suffix(target_path) = <<>> \/ target_path \in Dirs \cup st.dirs
             made == mkdir(st, IF as_dir THEN target_path
                               ELSE SubSeq(target_path, 1, Len(target_path) - 1))
             path == IF as_dir THEN target_path \o <<nManual>> ELSE target_path
         IN IF made.raised # "none" THEN made
            ELSE LET existing == existing_commodities(made, path)
                     i == MatchIndex(existing, commodity)
                 IN _save_to_yaml(made, path,
                                  IF i = 0 THEN Append(existing, model_dump(commodity))
                                  ELSE [existing EXCEPT ![i] = model_dump(commodity)])

\* The Commodity that add_commodity builds, before validation.
AddRecord(args) ==
    [name |-> clean_name(args.symbol), isin |-> args.isin, figi |-> None,
     currency |-> IF Truthy(args.currency) THEN args.currency
                  ELSE IF args.metadata # <<>> THEN args.metadata[1].currency ELSE None,
     issuer |-> None, tickers |-> AddTickers(args.metadata)]

\* The first error of Commodity(...), "none" when the record is valid.
AddError(args) ==
    LET r == AddRecord(args) IN
    IF ~Truthy(args.symbol) THEN "ValueError"
    ELSE IF validate_name(r.name).kind # "ok" THEN validate_name(r.name).kind
    ELSE IF validate_isin(r.isin).kind # "ok" THEN validate_isin(r.isin).kind
    ELSE IF validate_currency(r.currency).kind # "ok" THEN validate_currency(r.currency).kind
    ELSE "none"

\* The Commodity built: the ISIN is the validator's return value.
AddedCommodity(args) == [AddRecord(args) EXCEPT !.isin = validate_isin(args.isin).value]

\* Where _save_commodity_to_file writes for a target path.
TargetFile(target_path) ==
    IF suffix(target_path) = <<>> \/ is_dir(target_path)
    THEN target_path \o <<nManual>> ELSE target_path

\* A lookup by name or by ISIN returns a record with the content of c.
Visible(c) ==
    LET got == find_candidates(c.name, None)
               \o (IF Truthy(c.isin) THEN find_candidates(c.isin, None) ELSE <<>>)
    IN \E i \in DOMAIN got :
          /\ got[i].name = c.name /\ got[i].isin = c.isin
          /\ got[i].currency = c.currency /\ got[i].tickers = c.tickers

\* A variant that also registers the record with the live registry.
add_commodity_Live(st, args) ==
    IF AddError(args) # "none" THEN [st EXCEPT !.raised = AddError(args)]
    ELSE LET commodity == AddedCommodity(args)
             saved == _save_commodity_to_file(st, commodity, args.target_path, args.dry_run)
         IN [saved EXCEPT !.commodities = Append(@, Loaded(commodity, Len(@) + 1))]

\* add_commodity
add_commodity(st, args) ==
    IF AddError(args) # "none" THEN [st EXCEPT !.raised = AddError(args)]
    ELSE LET commodity == AddedCommodity(args)
         IN _save_commodity_to_file(st, commodity, args.target_path, args.dry_run)

InitAdd ==
    /\ fs \in AddFileSystems
    /\ include_bundled = FALSE
    /\ extra_paths = << <<nR>> >>
    /\ commodities = <<>> /\ load_errors = <<>>
    /\ by_isin = <<>> /\ by_figi = <<>> /\ by_name = <<>> /\ by_ticker = <<>>
    /\ pc = "new"
    /\ call = NoCall
    /\ matches = <<>>
    /\ found = NoCommodity
    /\ value = None
    /\ outcome = NoOutcome
    /\ proc = NoProc
    /\ world = NoWorld

\* A call of add_commodity while a registry is live.
AddCommodity(args) ==
    /\ pc = "ready"
    /\ proc = NoProc
    /\ LET st == add_commodity([fs |-> fs, dirs |-> world.dirs, commodities |-> commodities,
                                raised |-> "none"], args)
       IN /\ fs' = st.fs
          /\ world' = [world EXCEPT !.dirs = st.dirs]
          /\ commodities' = st.commodities
          /\ proc' = [cmd |-> "add", args |-> args, raised |-> st.raised,
                       commodity |-> AddedCommodity(args),
                       path |-> TargetFile(args.target_path),
                       before |-> fs, dirs_before |-> world.dirs,
                       seen |-> Visible(AddedCommodity(args)), live |-> TRUE]
    /\ pc' = "added"
    /\ UNCHANGED <<load_errors, by_isin, by_figi, by_name, by_ticker, include_bundled,
                   extra_paths, call, matches, found, value, outcome>>

\* After the add, the program asks for another registry, over paths.
NewRegistry(paths) ==
    /\ pc = "added"
    /\ extra_paths' = paths
    /\ proc' = [proc EXCEPT !.live = FALSE]
    /\ pc' = "new"
    /\ UNCHANGED <<commodities, load_errors, by_isin, by_figi, by_name, by_ticker,
                   fs, include_bundled, call, matches, found, value, outcome, world>>

NextAdd ==
    \/ Construct
    \/ \E args \in AddArgs : AddCommodity(args)
    \/ \E paths \in { << <<nR>> >>, << <<nW>> >> } : NewRegistry(paths)

SpecAdd == InitAdd /\ [][NextAdd]_vars

(***************************************************************************)
(* C18: add_commodity and the live registry.                               *)
(***************************************************************************)
\* C18: a call of add_commodity leaves the record sequence and the four
\* indices of the registry constructed before it as they were, and so every
\* lookup on that registry returns after the call what it returned before;
\* the added record shows in lookups only on a registry constructed later.
C18_AddLeavesLiveRegistry ==
    /\ [][pc' = "added" => UNCHANGED <<commodities, by_isin, by_figi, by_name, by_ticker>>]_vars
    /\ [][pc' = "added" => (Visible(proc.commodity) <=> proc.seen)']_vars

\* The file was written, the registry holds records, and no lookup on it
\* returns the added record.
C18_Witness ==
    /\ pc = "added"
    /\ proc.raised = "none"
    /\ fs # proc.before
    /\ commodities # <<>>
    /\ ~Visible(proc.commodity)

\* A registry constructed after the add, over the directory of the written
\* file, returns the added record.
C18_VisibleAfterConstruct ==
    /\ pc = "ready"
    /\ proc.cmd = "add" /\ ~proc.live /\ ~proc.seen
    /\ proc.path \in Range(ExtraFiles)
    /\ Visible(proc.commodity)

(***************************************************************************)
(* C19: the entry a save replaces.                                         *)
(***************************************************************************)
\* A save was made into a file that held a list of entries.
C19_Saved ==
    /\ pc = "added"
    /\ proc.raised = "none" /\ ~proc.args.dry_run
    /\ proc.path \in DOMAIN proc.before
    /\ proc.before[proc.path].kind \in {"mapping", "list"}

C19_Least(S) == CHOOSE i \in S : \A j \in S : i <= j

\* The entries after the save of e into existing: the entry with the ISIN
\* of e is replaced if there is one, otherwise the entry with the name of
\* e if there is one, otherwise e is appended.
C19_Reference(existing, e) ==
    LET same_isin == {i \in DOMAIN existing : e.isin # None /\ existing[i].isin = e.isin}
        same_name == {i \in DOMAIN existing : existing[i].name = e.name}
    IN IF same_isin # {} THEN [existing EXCEPT ![C19_Least(same_isin)] = e]
       ELSE IF same_name # {} THEN [existing EXCEPT ![C19_Least(same_name)] = e]
       ELSE Append(existing, e)

\* C19: a save into a file that holds a list of entries replaces, as a
\* whole, the entry with the record's ISIN if there is one, otherwise the
\* entry with the record's name if there is one, and otherwise appends the
\* record; every other entry keeps its content and position.
C19_ReplacesByIsinThenName ==
    C19_Saved =>
        fs[proc.path].commodities
            = C19_Reference(proc.before[proc.path].commodities, model_dump(proc.commodity))

\* What the save does: one entry is replaced as a whole or the record is
\* appended, and the others keep their content and position.
C19_OneEntryChanged ==
    C19_Saved =>
        LET old == proc.before[proc.path].commodities
            new == fs[proc.path].commodities
            e == model_dump(proc.commodity)
        IN \/ new = Append(old, e)
           \/ \E i \in DOMAIN old : new = [old EXCEPT ![i] = e]

\* An entry that has the record's name and another ISIN comes first and is
\* replaced; the entry with the record's ISIN stays, so that the file holds
\* the ISIN twice.
C19_NameMatchWins ==
    /\ C19_Saved
    /\ LET new == fs[proc.path].commodities
           e == model_dump(proc.commodity)
       IN /\ Len(new) = 2
          /\ new[1] = e
          /\ new[2].isin = e.isin /\ new[2].name # e.name
          /\ proc.before[proc.path].commodities[1].isin # e.isin

(***************************************************************************)
(* C20: dry run.                                                           *)
(***************************************************************************)
\* C20: with dry_run, add_commodity and _save_commodity_to_file create,
\* modify and delete no file and no directory, whatever the record and
\* whatever is at the target path.
C20_DryRunTouchesNothing ==
    pc = "added" /\ proc.args.dry_run =>
        fs = proc.before /\ world.dirs = proc.dirs_before

\* A dry run of a valid record towards a directory that does not exist.
C20_Witness ==
    /\ pc = "added"
    /\ proc.args.dry_run
    /\ proc.raised = "none"
    /\ ~exists(proc.args.target_path)
    /\ suffix(proc.args.target_path) = <<>>

\* The same call without dry_run makes the directory and writes the file.
C20_SaveMakesDirectory ==
    /\ pc = "added"
    /\ ~proc.args.dry_run
    /\ proc.raised = "none"
    /\ proc.args.target_path \in world.dirs
    /\ proc.path \in DOMAIN fs

(***************************************************************************)
(* C21: records with a later-loaded namesake.                              *)
(***************************************************************************)
\* r is the last-loaded record of its name: the by_name entry of its name.
C21_Current(r) == by_name[upper(r.name)] = r

\* The records the last lookup returned.
C21_Returned ==
    Range(matches) \cup (IF found = NoCommodity THEN {} ELSE {found})

\* C21: every record that find_by_ticker, find_by_isin or find_candidates
\* returns is the last-loaded record of its name; a record with a
\* later-loaded namesake is not reached through the ISIN or ticker index.
C21_SupersededNeverServed ==
    pc = "returned" => \A r \in C21_Returned : C21_Current(r)

\* What the lookups do return: records of the registry, whichever their
\* place among the records of their name.
C21_ReturnsLoadedRecords ==
    pc = "returned" => \A r \in C21_Returned : r \in Range(commodities)

\* find_by_ticker returns a record whose later namesake lists no such ticker.
C21_SupersededByTicker ==
    /\ Returned("find_by_ticker")
    /\ found # NoCommodity
    /\ ~C21_Current(found)
    /\ by_name[upper(found.name)].id > found.id

\* find_by_isin returns a record whose later namesake has another ISIN or none.
C21_SupersededByIsin ==
    /\ Returned("find_by_isin")
    /\ found # NoCommodity
    /\ ~C21_Current(found)
    /\ by_name[upper(found.name)].isin # found.isin

(***************************************************************************)
(* C22: resolve with a currency.                                           *)
(***************************************************************************)
\* The resolved record has the requested currency.
C22_InCurrency == upper(proc.resolved.currency) = upper(proc.args.currency)

\* C22: when resolve is given a currency, the record it reports as
\* resolved has that currency, ignoring case, on every path, the ticker
\* fallback included; otherwise the exit code is 1.
C22_ResolvedInRequestedCurrency ==
    Exited("resolve") /\ Truthy(proc.args.currency) =>
        IF proc.resolved # NoCommodity
        THEN proc.exit = 0 /\ C22_InCurrency
        ELSE proc.exit = 1

\* What resolve does: the currency holds of a record that find_candidates
\* returned; a record of the ticker fallback is taken as it is.
C22_CurrencyUnlessFallback ==
    Exited("resolve") /\ Truthy(proc.args.currency) =>
        IF proc.resolved # NoCommodity
        THEN proc.exit = 0 /\ (proc.probes = <<>> => C22_InCurrency)
        ELSE proc.exit = 1

\* A record of another currency, resolved through the ticker fallback.
C22_FallbackOtherCurrency ==
    /\ Exited("resolve")
    /\ Truthy(proc.args.currency)
    /\ proc.probes # <<>>
    /\ proc.exit = 0
    /\ proc.resolved # NoCommodity
    /\ ~C22_InCurrency

\* A record resolved from the filtered candidates, in the currency asked.
C22_FilteredCandidate ==
    /\ Exited("resolve")
    /\ Truthy(proc.args.currency)
    /\ proc.probes = <<>>
    /\ proc.exit = 0
    /\ C22_InCurrency

(***************************************************************************)
(* C23: the provider that validates a candidate's ticker.                  *)
(***************************************************************************)
\* C23: during the disambiguation of resolve, a ticker that the record
\* lists under provider p (yahoo, ft or google) is validated through p and
\* never through another provider.
C23_ValidatedByListingProvider ==
    Exited("resolve") =>
        \A k \in DOMAIN proc.calls :
            proc.calls[k].provider = ProviderStr(proc.calls[k].listed)

\* What resolve does: every ticker is validated through yahoo, the default
\* provider of verify_ticker.
C23_ValidatedByDefaultProvider ==
    Exited("resolve") =>
        \A k \in DOMAIN proc.calls : proc.calls[k].provider = ProviderStr("yahoo")

\* A ticker listed under ft, validated through yahoo, selects its candidate.
C23_FtTickerThroughYahoo ==
    /\ Exited("resolve")
    /\ proc.calls # <<>>
    /\ LET made == proc.calls[Len(proc.calls)] IN
       /\ made.listed = "ft"
       /\ made.provider = ProviderStr("yahoo")
       /\ made.result
    /\ proc.exit = 0

(***************************************************************************)
(* C24: what a save keeps of the target file.                              *)
(***************************************************************************)
\* A save was made into a file that was there.
C24_Saved ==
    /\ pc = "added"
    /\ proc.raised = "none" /\ ~proc.args.dry_run
    /\ proc.path \in DOMAIN proc.before

\* The entries written in the file before, all but at most one, are in the
\* file after, and the file holds no fewer entries.
C24_EntriesKept ==
    LET old == proc.before[proc.path].commodities
        new == fs[proc.path].commodities
    IN /\ Len(new) >= Len(old)
       /\ \E S \in SUBSET DOMAIN old :
             /\ Cardinality(S) <= 1
             /\ \A j \in DOMAIN old \ S : old[j] \in Range(new)

\* C24: a save that is not a dry run loses no stored entry, whatever the
\* file held before (a commodities document, a bare list, a mapping
\* without the key commodities, a content that does not parse): every
\* entry but the one replaced is still in the file and the number of
\* entries does not decrease; when add_commodity fails, the files are as
\* they were.
C24_SaveLosesNothing ==
    /\ C24_Saved => C24_EntriesKept
    /\ pc = "added" /\ proc.raised # "none" => fs = proc.before

\* What the save does: the entries are kept when the prior content parses;
\* a failed add_commodity leaves the files as they were.
C24_ParsedEntriesKept ==
    /\ C24_Saved /\ yaml_load(proc.before[proc.path]).kind = "ok" => C24_EntriesKept
    /\ pc = "added" /\ proc.raised # "none" => fs = proc.before

\* A file whose content does not parse is written anew with the one record.
C24_UnparsedOverwritten ==
    /\ C24_Saved
    /\ yaml_load(proc.before[proc.path]).kind # "ok"
    /\ Len(proc.before[proc.path].commodities) = 2
    /\ fs[proc.path].commodities = << model_dump(proc.commodity) >>

\* A failed add_commodity next to a file that is there.
C24_FailedAdd ==
    /\ pc = "added"
    /\ proc.raised # "none" /\ ~proc.args.dry_run
    /\ proc.path \in DOMAIN fs

====
